---- MODULE Spec2Model ----
(***************************************************************************)
(* A model of the quantitative core of the portfolio backend:              *)
(*   python_backend/Blacklitterman.py  (views, posterior returns, weights) *)
(*   python_backend/monte_carlo.py     (path simulation, aggregation)      *)
(*                                                                         *)
(* Floating point numbers are modelled as exact rationals <<num, den>>     *)
(* (den > 0, lowest terms); numpy arrays as records [shape, data].         *)
(* A call ends either in Return(value) or in Raise(exception name); the    *)
(* local variables of a call that runs in several steps are in frame; what *)
(* outlives a request of the HTTP server (python_backend/api.py, auth.py:  *)
(* the module globals and users.json) is in server.                        *)
(***************************************************************************)
EXTENDS Integers, Sequences, FiniteSets, TLC

VARIABLES pc, args, ret, frame, server

vars == <<pc, args, ret, frame, server>>

(***************************************************************************)
(* Bounds of the model.                                                    *)
(***************************************************************************)
\* largest number of assets N of a weights / posterior call
MaxN == 2
\* largest number of views K of a posterior call
MaxViews == 2
\* longest symbol list of a view generation
MaxSymbols == 3
\* largest number of assets, time steps and simulation runs of a path dict
MaxAssets == 2
MaxSteps == 2
MaxRuns == 2

(***************************************************************************)
(* Exact rational arithmetic standing in for numpy float64 arithmetic.     *)
(***************************************************************************)
Abs(x) == IF x < 0 THEN -x ELSE x

RECURSIVE GCD(_, _)
GCD(a, b) == IF b = 0 THEN a ELSE GCD(b, a % b)

\* the rational n/d (d # 0) in lowest terms with a positive denominator
Rat(n, d) ==
    LET s == IF d < 0 THEN -1 ELSE 1
        g == GCD(Abs(n), Abs(d))
    IN  <<(s * n) \div g, (s * d) \div g>>

RInt(n) == <<n, 1>>
RZero == RInt(0)
ROne == RInt(1)
\* over the least common denominator, which keeps the integers small
RAdd(a, b) ==
    LET g == GCD(a[2], b[2])
    IN  Rat(a[1] * (b[2] \div g) + b[1] * (a[2] \div g), (a[2] \div g) * b[2])
RNeg(a) == <<-a[1], a[2]>>
RSub(a, b) == RAdd(a, RNeg(b))
RMul(a, b) == Rat(a[1] * b[1], a[2] * b[2])
\* a / b for b # 0
RDiv(a, b) == Rat(a[1] * b[2], a[2] * b[1])
RAbs(a) == <<Abs(a[1]), a[2]>>
\* a > b
RGt(a, b) == a[1] * b[2] > b[1] * a[2]

RECURSIVE RSumSeq(_)
RSumSeq(s) == IF Len(s) = 0 THEN RZero ELSE RAdd(s[1], RSumSeq(Tail(s)))

(***************************************************************************)
(* numpy arrays: [shape |-> <<r, c>>, data |-> rows] for a 2-D array and   *)
(* [shape |-> <<n>>, data |-> entries] for a 1-D array.                    *)
(***************************************************************************)
\* the explicit sequence <<f[1], ..., f[n]>>
RECURSIVE Entries(_, _)
Entries(n, f) == IF n = 0 THEN <<>> ELSE Append(Entries(n - 1, f), f[n])

Arr2(r, c, f) ==
    [shape |-> <<r, c>>,
     data |-> Entries(r, [i \in 1..r |-> Entries(c, [j \in 1..c |-> f[i, j]])])]

Arr1(n, f) == [shape |-> <<n>>, data |-> Entries(n, f)]

Ndim(a) == Len(a.shape)

\* np.atleast_2d: a 1-D array of length n becomes the 1 x n row
AtLeast2d(a) ==
    IF Ndim(a) = 1
    THEN [shape |-> <<1, a.shape[1]>>, data |-> <<a.data>>]
    ELSE a

Transpose(m) == Arr2(m.shape[2], m.shape[1], [i \in 1..(m.shape[2]), j \in 1..(m.shape[1]) |-> m.data[j][i]])

\* a @ b for 2-D arrays of conforming shapes
MatMul(a, b) ==
    Arr2(a.shape[1], b.shape[2],
         [i \in 1..(a.shape[1]), j \in 1..(b.shape[2]) |-> RSumSeq([k \in 1..a.shape[2] |->
                                    RMul(a.data[i][k], b.data[k][j])])])

MatAdd(a, b) ==
    Arr2(a.shape[1], a.shape[2], [i \in 1..(a.shape[1]), j \in 1..(a.shape[2]) |-> RAdd(a.data[i][j], b.data[i][j])])

\* a * x, a / x for a scalar x
MatScale(a, x) ==
    Arr2(a.shape[1], a.shape[2], [i \in 1..(a.shape[1]), j \in 1..(a.shape[2]) |-> RMul(a.data[i][j], x)])

MatDivScalar(a, x) ==
    Arr2(a.shape[1], a.shape[2], [i \in 1..(a.shape[1]), j \in 1..(a.shape[2]) |-> RDiv(a.data[i][j], x)])

\* np.sum over every entry of a 2-D array
MatSum(a) ==
    RSumSeq([i \in 1..a.shape[1] |->
                RSumSeq([j \in 1..a.shape[2] |-> a.data[i][j]])])

\* rows of d without row r and column c
Minor(d, r, c) ==
    LET n == Len(d)
    IN  [i \in 1..(n - 1) |->
            [j \in 1..(n - 1) |->
                d[IF i < r THEN i ELSE i + 1][IF j < c THEN j ELSE j + 1]]]

RECURSIVE Det(_)
Det(d) ==
    LET n == Len(d)
    IN  IF n = 0 THEN ROne
        ELSE IF n = 1 THEN d[1][1]
        ELSE RSumSeq([j \in 1..n |->
                 RMul(RMul(RInt(IF j % 2 = 1 THEN 1 ELSE -1), d[1][j]),
                      Det(Minor(d, 1, j)))])

\* np.linalg.inv raises LinAlgError exactly when the matrix is singular
Singular(m) == Det(m.data) = RZero

\* np.linalg.inv of a non-singular square matrix: adjugate / determinant
MatInv(m) ==
    LET n == m.shape[1]
        dt == Det(m.data)
    IN  Arr2(n, n, [i \in 1..n, j \in 1..n |-> RDiv(RMul(RInt(IF (i + j) % 2 = 0 THEN 1 ELSE -1),
                      Det(Minor(m.data, j, i))), dt)])

(***************************************************************************)
(* Outcomes of a call.                                                     *)
(***************************************************************************)
Return(v) == [kind |-> "return", value |-> v]
Raise(e) == [kind |-> "raise", exc |-> e]
NoResult == [kind |-> "none"]
\* no local variables: the call has not started or runs in a single step
NoFrame == [at |-> "none"]
\* no state of the HTTP server: the call is made outside a request
NoServer == [at |-> "none"]

(***************************************************************************)
(* Blacklitterman.py: the shape normalisation both blender functions start *)
(* with: atleast_2d, then a 1 x n row (n > 1) is transposed to a column.   *)
(***************************************************************************)
AsColumn(a) ==
    LET m == AtLeast2d(a)
    IN  IF m.shape[1] = 1 /\ m.shape[2] > 1 THEN Transpose(m) ELSE m

(***************************************************************************)
(* Blacklitterman.py: calculate_optimal_weights                            *)
(***************************************************************************)
\* np.ones((n, 1)) / n
EqualWeights(n) == Arr2(n, 1, [i \in 1..n, j \in 1..1 |-> Rat(1, n)])

\* mutant: the fallback sized by the column count of the reshaped posterior
SingularSigmaFallback_ByColumns(p) == Return(EqualWeights(p.shape[2]))

\* the except branch of the inversion of Sigma
SingularSigmaFallback(p) == Return(EqualWeights(p.shape[1]))

\* cov_inv @ posterior_returns / risk_aversion
UnscaledWeights(p, cov, delta) == MatDivScalar(MatMul(MatInv(cov), p), delta)

\* mutant: the raw weights returned without the division by their sum
NormalizeWeights_NoDivision(u) ==
    IF MatSum(u) # RZero THEN Return(u) ELSE Raise("UnboundLocalError")

\* the normalisation; its else branch reads len(optimal_weights) before
\* optimal_weights is assigned, which raises UnboundLocalError
NormalizeWeights(u) ==
    IF MatSum(u) # RZero
    THEN Return(MatDivScalar(u, MatSum(u)))
    ELSE Raise("UnboundLocalError")

calculate_optimal_weights(posterior_returns, cov_matrix, risk_aversion) ==
    LET p == AsColumn(posterior_returns)
    IN  IF Singular(cov_matrix)
        THEN SingularSigmaFallback(p)
        ELSE NormalizeWeights(UnscaledWeights(p, cov_matrix, risk_aversion))

(***************************************************************************)
(* Blacklitterman.py: calculate_posterior_returns                          *)
(***************************************************************************)
\* ndarray.size
Size(a) == IF Ndim(a) = 1 THEN a.shape[1] ELSE a.shape[1] * a.shape[2]

\* mutant: the inversion of Omega left outside any try block
OmegaSingularFallback_Unguarded(pi) == Raise("LinAlgError")

\* the except branch of the inversion of Omega
OmegaSingularFallback(pi) == Return(pi)

\* the except branch of the inversion of the first bracket
BracketSingularFallback(pi) == Return(pi)

\* tau_sigma_inv + P^T Omega^-1 P
FirstBracket(cov, P, Omega, tau) ==
    MatAdd(MatInv(MatScale(cov, tau)),
           MatMul(MatMul(Transpose(P), MatInv(Omega)), P))

\* tau_sigma_inv Pi + P^T Omega^-1 Q
SecondBracket(pi, cov, P, Q, Omega, tau) ==
    MatAdd(MatMul(MatInv(MatScale(cov, tau)), pi),
           MatMul(MatMul(Transpose(P), MatInv(Omega)), Q))

\* the body after the zero-rows test: tau * Sigma is inverted first, outside
\* any try block, so a singular tau * Sigma raises LinAlgError
BlendWithViews(pi, cov, P, Q, Omega, tau) ==
    IF Singular(MatScale(cov, tau)) THEN Raise("LinAlgError")
    ELSE IF Size(Omega) = 0 THEN Return(pi)
    ELSE IF Omega.shape = <<1, 1>> /\ Omega.data[1][1] = RZero THEN Return(pi)
    ELSE IF Singular(Omega) THEN OmegaSingularFallback(pi)
    ELSE IF Singular(FirstBracket(cov, P, Omega, tau))
         THEN BracketSingularFallback(pi)
    ELSE Return(MatMul(MatInv(FirstBracket(cov, P, Omega, tau)),
                       SecondBracket(pi, cov, P, Q, Omega, tau)))

\* mutant: tau * Sigma inverted before the zero-rows test
calculate_posterior_returns_InvertFirst(implied_eq_returns, cov_matrix, P_matrix, Q_vector, Omega_matrix, tau) ==
    IF Singular(MatScale(cov_matrix, tau)) THEN Raise("LinAlgError")
    ELSE IF P_matrix.shape[1] = 0 THEN Return(AsColumn(implied_eq_returns))
    ELSE BlendWithViews(AsColumn(implied_eq_returns), cov_matrix, P_matrix,
                        Q_vector, Omega_matrix, tau)

\* mutant: tau taken from the cache of the server when there is one
calculate_posterior_returns_CachedTau(implied_eq_returns, cov_matrix, P_matrix, Q_vector, Omega_matrix, tau) ==
    IF P_matrix.shape[1] = 0 THEN Return(AsColumn(implied_eq_returns))
    ELSE BlendWithViews(AsColumn(implied_eq_returns), cov_matrix, P_matrix,
                        Q_vector, Omega_matrix,
                        IF "tauBL" \in DOMAIN server THEN server.tauBL ELSE tau)

calculate_posterior_returns(implied_eq_returns, cov_matrix, P_matrix, Q_vector, Omega_matrix, tau) ==
    IF P_matrix.shape[1] = 0 THEN Return(AsColumn(implied_eq_returns))
    ELSE BlendWithViews(AsColumn(implied_eq_returns), cov_matrix, P_matrix,
                        Q_vector, Omega_matrix, tau)

(***************************************************************************)
(* monte_carlo.py: simulate_portfolio_value                                *)
(* simulated_asset_paths is a dict: [keys |-> symbols in insertion order,  *)
(* paths |-> symbol -> time_intervals x iteration array].  Row 1 of an     *)
(* array is step 0, column 1 is run 0.                                     *)
(***************************************************************************)
\* optimal_weights.flatten()
Flatten(a) ==
    IF Ndim(a) = 1 THEN a.data
    ELSE [x \in 1..(a.shape[1] * a.shape[2]) |->
            a.data[((x - 1) \div a.shape[2]) + 1][((x - 1) % a.shape[2]) + 1]]

\* mutant: the price at step 0 of the last run
InitialPrices_LastRun(d) ==
    [j \in 1..Len(d.keys) |->
        d.paths[d.keys[j]].data[1][d.paths[d.keys[j]].shape[2]]]

\* initial_prices: every asset's price at step 0 of run 0
InitialPrices(d) == [j \in 1..Len(d.keys) |-> d.paths[d.keys[j]].data[1][1]]

\* mutant: a zero initial price counted as 1
NumShares_ZeroPriceAsOne(v, w, d) ==
    [j \in 1..Len(d.keys) |->
        IF InitialPrices(d)[j] # RZero
        THEN RDiv(RMul(v, w[j]), InitialPrices(d)[j])
        ELSE RMul(v, w[j])]

\* num_shares: allocation / initial price, and 0 for a zero initial price
NumShares(v, w, d) ==
    [j \in 1..Len(d.keys) |->
        IF InitialPrices(d)[j] # RZero
        THEN RDiv(RMul(v, w[j]), InitialPrices(d)[j])
        ELSE RZero]

\* mutant: the price of the step before
PortfolioValueAt_PreviousStep(shares, d, t, i) ==
    RSumSeq([j \in 1..Len(d.keys) |->
                RMul(shares[j], d.paths[d.keys[j]].data[t - 1][i])])

\* the inner loop over the assets at step t of run i
PortfolioValueAt(shares, d, t, i) ==
    RSumSeq([j \in 1..Len(d.keys) |->
                RMul(shares[j], d.paths[d.keys[j]].data[t][i])])

\* mutant: step 0 computed like every other step, not overwritten
PortfolioValues_NoDayZeroOverride(v, shares, d) ==
    LET first == d.paths[d.keys[1]]
    IN  Arr2(first.shape[1], first.shape[2],
             [t \in 1..(first.shape[1]), i \in 1..(first.shape[2]) |-> PortfolioValueAt(shares, d, t, i)])

\* the loops over runs and steps 1.., then step 0 set to the initial value
PortfolioValues(v, shares, d) ==
    LET first == d.paths[d.keys[1]]
    IN  Arr2(first.shape[1], first.shape[2],
             [t \in 1..(first.shape[1]), i \in 1..(first.shape[2]) |-> IF t = 1 THEN v
                           ELSE PortfolioValueAt(shares, d, t, i)])

simulate_portfolio_value(initial_portfolio_value, optimal_weights, simulated_asset_paths) ==
    IF Len(simulated_asset_paths.keys) = 0
    THEN Return(Arr1(0, [i \in 1..0 |-> RZero]))
    ELSE IF optimal_weights.shape[1] # Len(simulated_asset_paths.keys)
    THEN Raise("ValueError")
    ELSE Return(PortfolioValues(initial_portfolio_value,
                    NumShares(initial_portfolio_value, Flatten(optimal_weights),
                              simulated_asset_paths),
                    simulated_asset_paths))

(***************************************************************************)
(* Blacklitterman.py: analyze_sentiment_vader, get_sentiment_based_views   *)
(* A headline is modelled by its VADER compound score; headlines_dict is a *)
(* function from some symbols to sequences of scores.  Indices are counted *)
(* from 1: the pivot symbols[0] of the code is symbols[1] here.            *)
(***************************************************************************)
\* sentiment_diff_threshold = 0.10
SentimentDiffThreshold == Rat(10, 100)
\* tau_for_omega_calc = 0.025
TauForOmegaCalc == Rat(25, 1000)
\* sentiment_to_return_factor = 0.001
SentimentToReturnFactor == Rat(1, 1000)
\* the epsilon added to Omega's diagonal, 1e-9
OmegaEpsilon == Rat(1, 1000000000)

\* 0.0 without headlines, else the mean of the compound scores
analyze_sentiment_vader(headlines) ==
    IF Len(headlines) = 0 THEN RZero
    ELSE RDiv(RSumSeq(headlines), RInt(Len(headlines)))

\* headlines_dict.get(symbol, [])
HeadlinesOf(headlines_dict, symbol) ==
    IF symbol \in DOMAIN headlines_dict THEN headlines_dict[symbol] ELSE <<>>

\* sentiment_results[symbol]
SentimentOf(headlines_dict, symbol) ==
    analyze_sentiment_vader(HeadlinesOf(headlines_dict, symbol))

\* ticker_index = {sym: i for i, sym in enumerate(symbols)}: a repeated
\* symbol keeps its last index
TickerIndex(symbols, sym) ==
    CHOOSE i \in 1..Len(symbols) :
        /\ symbols[i] = sym
        /\ \A j \in (i + 1)..Len(symbols) : symbols[j] # sym

\* sentiment_diff of the symbol at index i against the pivot
SentimentDiff(symbols, headlines_dict, i) ==
    RSub(SentimentOf(headlines_dict, symbols[i]),
         SentimentOf(headlines_dict, symbols[1]))

\* mutant: a difference equal to the threshold emits a view too
PassesThreshold_Inclusive(diff) == ~RGt(SentimentDiffThreshold, RAbs(diff))

\* abs(sentiment_diff) > sentiment_diff_threshold
PassesThreshold(diff) == RGt(RAbs(diff), SentimentDiffThreshold)

\* mutant: the +1 and the -1 written to each other's place
ViewRow_Swapped(symbols, i) ==
    [j \in 1..Len(symbols) |->
        IF j = TickerIndex(symbols, symbols[i]) THEN RNeg(ROne)
        ELSE IF j = TickerIndex(symbols, symbols[1]) THEN ROne
        ELSE RZero]

\* view_row: zeros, then 1 at ticker_index[current_sym], then -1 at
\* ticker_index[base_stock_sym]
ViewRow(symbols, i) ==
    [j \in 1..Len(symbols) |->
        IF j = TickerIndex(symbols, symbols[1]) THEN RNeg(ROne)
        ELSE IF j = TickerIndex(symbols, symbols[i]) THEN ROne
        ELSE RZero]

\* the indices 2..N whose difference passes the threshold, in order (none
\* when there are fewer than two symbols)
ViewIndices(symbols, headlines_dict) ==
    SelectSeq([x \in 1..(Len(symbols) - 1) |-> x + 1],
              LAMBDA i : PassesThreshold(SentimentDiff(symbols, headlines_dict, i)))

\* mutant: Omega without the epsilon on its diagonal
OmegaMatrix_NoEpsilon(P, cov_matrix) ==
    IF P.shape[1] > 0
    THEN LET m == MatMul(MatMul(P, MatScale(cov_matrix, TauForOmegaCalc)),
                         Transpose(P))
         IN  Arr2(P.shape[1], P.shape[1],
                  [i \in 1..(P.shape[1]), j \in 1..(P.shape[1]) |-> IF i = j THEN m.data[i][i] ELSE RZero])
    ELSE Arr2(0, 0, [i \in 1..0, j \in 1..0 |-> RZero])

\* mutant: np.array(P_list) of an empty list, a 1-D array of length 0
PMatrix_NoEmptyCase(symbols, idx) ==
    IF Len(idx) = 0 THEN Arr1(0, [i \in 1..0 |-> RZero])
    ELSE [shape |-> <<Len(idx), Len(symbols)>>,
          data |-> [k \in 1..Len(idx) |-> ViewRow(symbols, idx[k])]]

\* P_matrix: the rows of P_list, or np.empty((0, len(symbols)))
PMatrix(symbols, idx) ==
    [shape |-> <<Len(idx), Len(symbols)>>,
     data |-> [k \in 1..Len(idx) |-> ViewRow(symbols, idx[k])]]

\* Q_vector: the rows of Q_list, or np.empty((0, 1))
QVector(symbols, headlines_dict, idx) ==
    Arr2(Len(idx), 1,
         [k \in 1..(Len(idx)), j \in 1..1 |-> RMul(SentimentDiff(symbols, headlines_dict, idx[k]),
                            SentimentToReturnFactor)])

\* Omega_matrix: diag(diag(P (tau Sigma) P^T)) + 1e-9 I, or np.empty((0, 0))
OmegaMatrix(P, cov_matrix) ==
    IF P.shape[1] > 0
    THEN LET m == MatMul(MatMul(P, MatScale(cov_matrix, TauForOmegaCalc)),
                         Transpose(P))
         IN  Arr2(P.shape[1], P.shape[1],
                  [i \in 1..(P.shape[1]), j \in 1..(P.shape[1]) |-> IF i = j THEN RAdd(m.data[i][i], OmegaEpsilon)
                                ELSE RZero])
    ELSE Arr2(0, 0, [i \in 1..0, j \in 1..0 |-> RZero])

get_sentiment_based_views(symbols, cov_matrix, headlines_dict) ==
    IF Len(symbols) = 0
    THEN Return([P |-> Arr2(0, 0, [i \in 1..0, j \in 1..0 |-> RZero]),
                 Q |-> Arr2(0, 1, [i \in 1..0, j \in 1..1 |-> RZero]),
                 Omega |-> Arr2(0, 0, [i \in 1..0, j \in 1..0 |-> RZero])])
    ELSE LET idx == ViewIndices(symbols, headlines_dict)
             P == PMatrix(symbols, idx)
         IN  Return([P |-> P,
                     Q |-> QVector(symbols, headlines_dict, idx),
                     Omega |-> OmegaMatrix(P, cov_matrix)])

(***************************************************************************)
(* Inputs of the bounded checks.                                           *)
(***************************************************************************)
CovValues == {0, 1}
ReturnValues == {-1, 0, 1}
\* risk aversion coefficients (non-zero: x / 0.0 is inf or nan in numpy)
RiskAversions == {Rat(5, 2), RInt(-1)}
ArrayLayouts == {"col", "row", "flat"}

\* symmetric n x n matrices over the integers in vals
SymMatrices(n, vals) ==
    {Arr2(n, n, [i \in 1..n, j \in 1..n |-> RInt(IF i <= j THEN f[<<i, j>>] ELSE f[<<j, i>>])]) :
        f \in [{<<i, j>> \in (1..n) \X (1..n) : i <= j} -> vals]}

\* a vector of n integers laid out as an n x 1 column, a 1 x n row or 1-D
Vector(f, n, layout) ==
    CASE layout = "col" -> Arr2(n, 1, [i \in 1..n, j \in 1..1 |-> RInt(f[i])])
      [] layout = "row" -> Arr2(1, n, [i \in 1..1, j \in 1..n |-> RInt(f[j])])
      [] OTHER -> Arr1(n, [i \in 1..n |-> RInt(f[i])])

Vectors(n, vals, layouts) ==
    {Vector(f, n, l) : f \in [1..n -> vals], l \in layouts}

(***************************************************************************)
(* SpecWeights: one call of calculate_optimal_weights on bounded inputs.   *)
(***************************************************************************)
InitWeights ==
    /\ pc = "call"
    /\ ret = NoResult
    /\ frame = NoFrame
    /\ server = NoServer
    /\ \E n \in 1..MaxN :
         \E cov \in SymMatrices(n, CovValues) :
           \E post \in Vectors(n, ReturnValues, ArrayLayouts) :
             \E delta \in RiskAversions :
               args = [fn |-> "calculate_optimal_weights", n |-> n,
                       posterior_returns |-> post, cov_matrix |-> cov,
                       risk_aversion |-> delta]

CallOptimalWeights ==
    /\ pc = "call"
    /\ args.fn = "calculate_optimal_weights"
    /\ ret' = calculate_optimal_weights(args.posterior_returns,
                                        args.cov_matrix, args.risk_aversion)
    /\ pc' = "done"
    /\ UNCHANGED <<args, frame>>
    /\ UNCHANGED server

NextWeights == CallOptimalWeights

SpecWeights == InitWeights /\ [][NextWeights]_vars

(***************************************************************************)
(* Claims about calculate_optimal_weights, checked under SpecWeights.      *)
(***************************************************************************)
WeightsDone == pc = "done" /\ args.fn = "calculate_optimal_weights"

\* the i-th entry of a vector given as a column, a row or a 1-D array
Entry(a, i) ==
    IF Ndim(a) = 1 THEN a.data[i]
    ELSE IF a.shape[2] = 1 THEN a.data[i][1] ELSE a.data[1][i]

\* the sum of the raw weights Sigma^-1 * posterior / delta (Sigma invertible)
RawWeightSum ==
    MatSum(UnscaledWeights(AsColumn(args.posterior_returns), args.cov_matrix,
                           args.risk_aversion))

IsEqualWeightColumn(r, n) ==
    /\ r.kind = "return"
    /\ r.value.shape = <<n, 1>>
    /\ \A i \in 1..n : r.value.data[i][1] = Rat(1, n)

\* C1 (as claimed): whenever Sigma is invertible and the raw weight sum is
\* exactly 0, the call returns the N x 1 vector of equal weights 1/N and
\* does not end in an error.
C1_ZeroSumReturnsEqualWeights ==
    (WeightsDone /\ ~Singular(args.cov_matrix) /\ RawWeightSum = RZero)
        => IsEqualWeightColumn(ret, args.n)

\* C5: whenever Sigma is non-singular and the raw weight sum is non-zero,
\* the call returns an N x 1 vector w that sums to 1 and is a multiple of
\* Sigma^-1 * posterior (Sigma * w is parallel to the posterior, entry by
\* entry equal to posterior / (delta * raw sum)); nothing bounds the
\* individual weights.
C5_NormalisedWeightsSumToOne ==
    (WeightsDone /\ ~Singular(args.cov_matrix) /\ RawWeightSum # RZero)
        => /\ ret.kind = "return"
           /\ ret.value.shape = <<args.n, 1>>
           /\ MatSum(ret.value) = ROne
           /\ LET sw == MatMul(args.cov_matrix, ret.value)
              IN  \A i \in 1..args.n :
                    RMul(sw.data[i][1], RMul(args.risk_aversion, RawWeightSum))
                        = Entry(args.posterior_returns, i)

\* C5 witness: a normalised result with a negative weight and one above 1
C5_Witness ==
    /\ WeightsDone
    /\ args.n = 2
    /\ ~Singular(args.cov_matrix)
    /\ ret.kind = "return"
    /\ MatSum(ret.value) = ROne
    /\ \E i \in 1..2 : RGt(RZero, ret.value.data[i][1])
    /\ \E i \in 1..2 : RGt(ret.value.data[i][1], ROne)

\* C6: whenever Sigma is singular the call returns the N x 1 vector whose
\* entries all equal 1/N, N the number of posterior returns, and raises
\* nothing.
C6_SingularSigmaEqualWeights ==
    (WeightsDone /\ Singular(args.cov_matrix))
        => IsEqualWeightColumn(ret, args.n)

\* C6 witness: a singular 2 x 2 Sigma with a posterior passed as a row
C6_Witness ==
    /\ WeightsDone
    /\ args.n = 2
    /\ Singular(args.cov_matrix)
    /\ args.posterior_returns.shape = <<1, 2>>
    /\ IsEqualWeightColumn(ret, 2)

(***************************************************************************)
(* SpecPosterior: one call of calculate_posterior_returns on bounded       *)
(* inputs: K views over N assets, each view a +1/-1 pair (a single +1 for  *)
(* N = 1), a diagonal Omega, Q and Omega of kq rows (kq = K, or 1 with an  *)
(* empty P).                                                               *)
(***************************************************************************)
PriorCovValues == {0, 1}
OmegaValues == {Rat(-1, 20), RZero, ROne}
ViewReturnValues == {1}
\* tauBL as the request defaults it
TauValues == {Rat(1, 20)}

\* the prior 1, 2, ..., N as a column and as a 1-D array
PriorLayouts == {"col", "flat"}
Priors(n) == {Vector([i \in 1..n |-> i], n, l) : l \in PriorLayouts}

\* the pick rows over n assets as the view generator shapes them: +1 at a
\* non-pivot asset and -1 at the pivot (a single +1 when n = 1)
PickRows(n) ==
    IF n = 1 THEN {[j \in 1..1 |-> ROne]}
    ELSE {[j \in 1..n |-> IF j = a THEN ROne ELSE IF j = 1 THEN RNeg(ROne) ELSE RZero] :
            a \in 2..n}

PickMatrices(k, n) ==
    {[shape |-> <<k, n>>, data |-> rows] : rows \in [1..k -> PickRows(n)]}

DiagMatrices(k, vals) ==
    {Arr2(k, k, [i \in 1..k, j \in 1..k |-> IF i = j THEN d[i] ELSE RZero]) : d \in [1..k -> vals]}

InitPosterior ==
    /\ pc = "call"
    /\ ret = NoResult
    /\ frame = NoFrame
    /\ server = NoServer
    /\ \E n \in 1..MaxN, k \in 0..MaxViews :
         \E kq \in {k} \cup (IF k = 0 THEN {1} ELSE {}) :
           \E cov \in SymMatrices(n, PriorCovValues),
              prior \in Priors(n),
              P \in PickMatrices(k, n),
              Q \in Vectors(kq, ViewReturnValues, {"col"}),
              Omega \in DiagMatrices(kq, OmegaValues),
              tau \in TauValues :
             args = [fn |-> "calculate_posterior_returns", n |-> n, k |-> k,
                     implied_eq_returns |-> prior, cov_matrix |-> cov,
                     P_matrix |-> P, Q_vector |-> Q, Omega_matrix |-> Omega,
                     tau |-> tau]

CallPosteriorReturns ==
    /\ pc = "call"
    /\ args.fn = "calculate_posterior_returns"
    /\ ret' = calculate_posterior_returns(args.implied_eq_returns,
                  args.cov_matrix, args.P_matrix, args.Q_vector,
                  args.Omega_matrix, args.tau)
    /\ pc' = "done"
    /\ UNCHANGED <<args, frame>>
    /\ UNCHANGED server

NextPosterior == CallPosteriorReturns

SpecPosterior == InitPosterior /\ [][NextPosterior]_vars

(***************************************************************************)
(* Claims about calculate_posterior_returns, checked under SpecPosterior.  *)
(***************************************************************************)
PosteriorDone == pc = "done" /\ args.fn = "calculate_posterior_returns"

TauSigmaSingular == Singular(MatScale(args.cov_matrix, args.tau))

\* the bracket [(tau Sigma)^-1 + P^T Omega^-1 P] exists and is singular
BracketSingular ==
    IF TauSigmaSingular \/ Singular(args.Omega_matrix) THEN FALSE
    ELSE Singular(FirstBracket(args.cov_matrix, args.P_matrix,
                               args.Omega_matrix, args.tau))

\* r returns the prior Pi as an N x 1 column
ReturnsPrior(r) ==
    /\ r.kind = "return"
    /\ r.value.shape = <<args.n, 1>>
    /\ \A i \in 1..args.n :
         r.value.data[i][1] = Entry(args.implied_eq_returns, i)

C2_BracketCase ==
    /\ PosteriorDone
    /\ args.k >= 1
    /\ BracketSingular
    /\ ReturnsPrior(ret)

\* a call in which the views move the prior
ViewsMovePrior ==
    /\ PosteriorDone
    /\ args.k >= 1
    /\ ret.kind = "return"
    /\ ~ReturnsPrior(ret)

\* C7: with a P of zero rows the result is Pi as an N x 1 column, for any
\* Sigma (singular ones included), Q, Omega and tau, and no error is raised.
C7_NoViewsReturnsPrior ==
    (PosteriorDone /\ args.k = 0) => ReturnsPrior(ret)

\* C7 witness: no views, a singular Sigma, a non-empty Omega, Pi given 1-D
C7_Witness ==
    /\ PosteriorDone
    /\ args.k = 0 /\ args.n = 2
    /\ TauSigmaSingular
    /\ Size(args.Omega_matrix) = 1
    /\ Ndim(args.implied_eq_returns) = 1
    /\ ReturnsPrior(ret)

(***************************************************************************)
(* SpecPortfolio: one call of simulate_portfolio_value on bounded inputs.  *)
(* An asset's path starts at s0 and grows by a factor that differs per     *)
(* step, run and asset (a zero s0 gives the zero-filled path); with skew   *)
(* the runs of a path start at different prices.                           *)
(***************************************************************************)
SymbolOrder == <<"AAPL", "MSFT", "GOOG", "TSLA">>
StartPrices == {0, 1, 2}
WeightValues == {RZero, Rat(1, 2), ROne}
InitialValues == {RInt(100)}

SamplePath(s0, j, steps, runs, skew) ==
    Arr2(steps, runs,
         [t \in 1..steps, i \in 1..runs |-> RInt(s0 * (1 + (t - 1) * (i + j - 1))
                            + (IF skew THEN i - 1 ELSE 0))])

PathDict(n, s0, steps, runs, skew) ==
    [keys |-> [j \in 1..n |-> SymbolOrder[j]],
     paths |-> [sym \in {SymbolOrder[j] : j \in 1..n} |->
                  LET j == CHOOSE x \in 1..n : SymbolOrder[x] = sym
                  IN  SamplePath(s0[j], j, steps, runs, skew)]]

WeightColumns(n) ==
    {Arr2(n, 1, [i \in 1..n, j \in 1..1 |-> f[i]]) : f \in [1..n -> WeightValues]}

InitPortfolio ==
    /\ pc = "call"
    /\ ret = NoResult
    /\ frame = NoFrame
    /\ server = NoServer
    /\ \E n \in 0..MaxAssets, nw \in 1..MaxAssets :
         \E steps \in 1..(IF n = 0 THEN 1 ELSE MaxSteps),
            runs \in 1..(IF n = 0 THEN 1 ELSE MaxRuns),
            skew \in (IF n = 0 THEN {FALSE} ELSE BOOLEAN) :
           \E s0 \in [1..n -> StartPrices],
              w \in WeightColumns(nw),
              v \in InitialValues :
             args = [fn |-> "simulate_portfolio_value", n |-> n,
                     steps |-> steps, runs |-> runs,
                     initial_portfolio_value |-> v,
                     optimal_weights |-> w,
                     simulated_asset_paths |-> PathDict(n, s0, steps, runs, skew)]

CallSimulatePortfolioValue ==
    /\ pc = "call"
    /\ args.fn = "simulate_portfolio_value"
    /\ ret' = simulate_portfolio_value(args.initial_portfolio_value,
                  args.optimal_weights, args.simulated_asset_paths)
    /\ pc' = "done"
    /\ UNCHANGED <<args, frame>>
    /\ UNCHANGED server

NextPortfolio == CallSimulatePortfolioValue

SpecPortfolio == InitPortfolio /\ [][NextPortfolio]_vars

(***************************************************************************)
(* Claims about simulate_portfolio_value, checked under SpecPortfolio.     *)
(***************************************************************************)
\* a call on a non-empty path dict with a weight vector of matching length
PortfolioDone ==
    /\ pc = "done"
    /\ args.fn = "simulate_portfolio_value"
    /\ args.n >= 1
    /\ args.optimal_weights.shape[1] = args.n

\* the price of asset j at step t of run i (both counted from 1)
PriceOf(j, t, i) ==
    args.simulated_asset_paths.paths[args.simulated_asset_paths.keys[j]].data[t][i]

\* the share count the claims speak of: fixed at step 0 from the run-0 price
SharesOf(j) ==
    IF PriceOf(j, 1, 1) = RZero THEN RZero
    ELSE RDiv(RMul(args.initial_portfolio_value,
                   args.optimal_weights.data[j][1]), PriceOf(j, 1, 1))

HoldingsValue(t, i) ==
    RSumSeq([j \in 1..args.n |-> RMul(SharesOf(j), PriceOf(j, t, i))])

WeightTotal == RSumSeq([j \in 1..args.n |-> args.optimal_weights.data[j][1]])

\* C3 (as claimed): at every step, step 0 included, and every run the
\* returned value is the sum over the assets of shares_j * price_j[t, i],
\* for any weight vector.
C3_ValueIsHoldingsAtEveryStep ==
    PortfolioDone =>
        /\ ret.kind = "return"
        /\ \A t \in 1..args.steps, i \in 1..args.runs :
             ret.value.data[t][i] = HoldingsValue(t, i)

\* C3 (amended): at every step t >= 1 and every run the returned value is
\* the sum over the assets of shares_j * price_j[t, i] with the shares fixed
\* at step 0; at step 0 it is the given initial portfolio value, which is
\* that sum only when the weights of the assets priced above zero sum to 1.
C3_ValueIsHoldingsAfterStepZero ==
    PortfolioDone =>
        /\ ret.kind = "return"
        /\ ret.value.shape = <<args.steps, args.runs>>
        /\ \A t \in 2..args.steps, i \in 1..args.runs :
             ret.value.data[t][i] = HoldingsValue(t, i)
        /\ \A i \in 1..args.runs :
             ret.value.data[1][i] = args.initial_portfolio_value

\* C3 witness: two assets, weights that do not sum to 1, a later step whose
\* value is the holdings' value and differs between two runs
C3_Witness ==
    /\ PortfolioDone
    /\ args.n = 2 /\ args.steps = 2 /\ args.runs = 2
    /\ WeightTotal # ROne
    /\ ret.kind = "return"
    /\ ret.value.data[2][1] = HoldingsValue(2, 1)
    /\ ret.value.data[2][2] = HoldingsValue(2, 2)
    /\ ret.value.data[2][1] # ret.value.data[2][2]
    /\ ret.value.data[1][1] # HoldingsValue(1, 1)

\* C4: for a non-empty path dict and a weight vector of matching length the
\* value at step 0 is the given initial portfolio value in every run.
C4_StepZeroIsInitialValue ==
    PortfolioDone =>
        /\ ret.kind = "return"
        /\ \A i \in 1..args.runs :
             ret.value.data[1][i] = args.initial_portfolio_value

\* C4 witness: two runs, weights summing to 1/2, holdings worth half the
\* initial value at step 0, and the initial value returned for step 0
C4_Witness ==
    /\ PortfolioDone
    /\ args.runs = 2
    /\ WeightTotal = Rat(1, 2)
    /\ HoldingsValue(1, 1) = RMul(Rat(1, 2), args.initial_portfolio_value)
    /\ ret.kind = "return"
    /\ ret.value.data[1][1] = args.initial_portfolio_value
    /\ ret.value.data[1][2] = args.initial_portfolio_value

(***************************************************************************)
(* SpecViews: one call of get_sentiment_based_views on bounded inputs: a   *)
(* symbol list (repeats allowed, as the request passes it on), headlines   *)
(* for some of its symbols, and a covariance matrix of matching size.      *)
(***************************************************************************)
SymbolSet == {"AAPL", "MSFT", "GOOG"}

\* the headlines a symbol may have, as compound scores: none at all, one at
\* the threshold, one just above it, two whose mean is at the threshold,
\* one far above
HeadlineLists ==
    {<<>>, <<Rat(10, 100)>>, <<Rat(11, 100)>>,
     <<Rat(-30, 100), Rat(50, 100)>>, <<Rat(50, 100)>>}

SymbolLists == UNION {[1..n -> SymbolSet] : n \in 0..MaxSymbols}

SymbolsIn(symbols) == {symbols[i] : i \in 1..Len(symbols)}

HeadlineDicts(symbols) ==
    UNION {[keys -> HeadlineLists] : keys \in SUBSET SymbolsIn(symbols)}

\* the identity, the covariance min(i, j) of a random walk, and a symmetric
\* matrix that is not positive semi-definite (1 on the diagonal, 2 off it)
CovSamples(n) ==
    {Arr2(n, n, [i \in 1..n, j \in 1..n |-> RInt(IF i = j THEN 1 ELSE 0)]),
     Arr2(n, n, [i \in 1..n, j \in 1..n |-> RInt(IF i < j THEN i ELSE j)]),
     Arr2(n, n, [i \in 1..n, j \in 1..n |-> RInt(IF i = j THEN 1 ELSE 2)])}

InitViews ==
    /\ pc = "call"
    /\ ret = NoResult
    /\ frame = NoFrame
    /\ server = NoServer
    /\ \E symbols \in SymbolLists :
         \E headlines_dict \in HeadlineDicts(symbols),
            cov \in CovSamples(Len(symbols)) :
           args = [fn |-> "get_sentiment_based_views", symbols |-> symbols,
                   cov_matrix |-> cov, headlines_dict |-> headlines_dict]

CallSentimentBasedViews ==
    /\ pc = "call"
    /\ args.fn = "get_sentiment_based_views"
    /\ ret' = get_sentiment_based_views(args.symbols, args.cov_matrix,
                                        args.headlines_dict)
    /\ pc' = "done"
    /\ UNCHANGED <<args, frame>>
    /\ UNCHANGED server

NextViews == CallSentimentBasedViews

SpecViews == InitViews /\ [][NextViews]_vars

(***************************************************************************)
(* Claims about get_sentiment_based_views, checked under SpecViews.        *)
(***************************************************************************)
ViewsDone == pc = "done" /\ args.fn = "get_sentiment_based_views"

NumSymbols == Len(args.symbols)

\* the number of view rows returned
NumViews == ret.value.P.shape[1]

\* the sentiment difference of the asset at index i against the pivot
DiffOf(i) ==
    RSub(SentimentOf(args.headlines_dict, args.symbols[i]),
         SentimentOf(args.headlines_dict, args.symbols[1]))

\* |diff| strictly above 0.10
AboveThreshold(d) == RGt(RAbs(d), Rat(1, 10))

\* the non-pivot indices whose difference is above the threshold, in order
PassingIndices ==
    SelectSeq([x \in 1..(NumSymbols - 1) |-> x + 1],
              LAMBDA i : AboveThreshold(DiffOf(i)))

\* the last index at which the symbol of index i occurs in the list
LastIndexOf(i) ==
    CHOOSE x \in 1..NumSymbols :
        /\ args.symbols[x] = args.symbols[i]
        /\ \A y \in 1..NumSymbols : args.symbols[y] = args.symbols[i] => y <= x

DistinctSymbols ==
    \A x, y \in 1..NumSymbols : args.symbols[x] = args.symbols[y] => x = y

\* row is +1 at index plus, -1 at index minus and 0 elsewhere
IsPairRow(row, plus, minus) ==
    /\ plus # minus
    /\ \A j \in 1..NumSymbols :
         row[j] = IF j = plus THEN ROne
                  ELSE IF j = minus THEN RNeg(ROne) ELSE RZero

\* C8 (as claimed): for every symbol list of length N >= 1, K <= N - 1 and
\* every row has its -1 at the pivot index (the first) and its +1 at another
\* index.
C8_MinusOneAtFirstIndex ==
    (ViewsDone /\ NumSymbols >= 1) =>
        /\ NumViews <= NumSymbols - 1
        /\ \A k \in 1..NumViews :
             /\ ret.value.P.data[k][1] = RNeg(ROne)
             /\ \E j \in 2..NumSymbols : ret.value.P.data[k][j] = ROne

\* C8 (amended): for every symbol list of length N >= 1, K <= N - 1 and
\* every row is one +1, one -1 and zeros, the -1 at the index ticker_index
\* gives the pivot symbol (its last occurrence: the first index when the
\* pivot symbol is not repeated, and always when the symbols are pairwise
\* distinct) and the +1 at an index that holds another symbol, so no row
\* is a view of the pivot against itself.
C8_MinusOneAtPivotSymbol ==
    (ViewsDone /\ NumSymbols >= 1) =>
        /\ NumViews <= NumSymbols - 1
        /\ \A k \in 1..NumViews :
             \E plus \in 1..NumSymbols :
               /\ args.symbols[plus] # args.symbols[1]
               /\ IsPairRow(ret.value.P.data[k], plus, LastIndexOf(1))
        /\ DistinctSymbols =>
             \A k \in 1..NumViews :
               /\ ret.value.P.data[k][1] = RNeg(ROne)
               /\ \E j \in 2..NumSymbols : ret.value.P.data[k][j] = ROne

\* C8 witness: three distinct symbols and the largest number of views, 2
C8_Witness ==
    /\ ViewsDone
    /\ NumSymbols = 3 /\ DistinctSymbols
    /\ NumViews = 2
    /\ IsPairRow(ret.value.P.data[1], 2, 1)
    /\ IsPairRow(ret.value.P.data[2], 3, 1)

\* C9 (as claimed): the views are those of the non-pivot assets i, in
\* symbol order, with |sentiment[i] - sentiment[pivot]| strictly above 0.10;
\* the row of asset i is +1 at i, -1 at the pivot (the first index), 0
\* elsewhere, and its Q entry is the difference times 0.001.
C9_ViewIffAboveThresholdAtOwnIndex ==
    (ViewsDone /\ NumSymbols >= 1) =>
        /\ NumViews = Len(PassingIndices)
        /\ ret.value.Q.shape = <<Len(PassingIndices), 1>>
        /\ \A k \in 1..Len(PassingIndices) :
             /\ IsPairRow(ret.value.P.data[k], PassingIndices[k], 1)
             /\ ret.value.Q.data[k][1]
                    = RMul(DiffOf(PassingIndices[k]), Rat(1, 1000))

\* C9 (amended): the views are those of the non-pivot positions i, in
\* symbol order, with |sentiment[i] - sentiment[pivot]| strictly above 0.10
\* (a difference equal to 0.10 emits none); the row of position i is +1 at
\* the last occurrence of symbols[i] and -1 at the last occurrence of the
\* pivot symbol (at i and at the first index when the symbols are pairwise
\* distinct), 0 elsewhere, and its Q entry is the difference times 0.001.
C9_ViewIffAboveThreshold ==
    (ViewsDone /\ NumSymbols >= 1) =>
        /\ NumViews = Len(PassingIndices)
        /\ ret.value.Q.shape = <<Len(PassingIndices), 1>>
        /\ \A k \in 1..Len(PassingIndices) :
             /\ IsPairRow(ret.value.P.data[k], LastIndexOf(PassingIndices[k]),
                          LastIndexOf(1))
             /\ DistinctSymbols =>
                  IsPairRow(ret.value.P.data[k], PassingIndices[k], 1)
             /\ ret.value.Q.data[k][1]
                    = RMul(DiffOf(PassingIndices[k]), Rat(1, 1000))

\* C9 witness: sentiments 0.0 (pivot), 0.5 and 0.10 for three distinct
\* symbols: a view for the second with Q = 0.0005, none for the third,
\* whose difference is exactly the threshold
C9_Witness ==
    /\ ViewsDone
    /\ NumSymbols = 3 /\ DistinctSymbols
    /\ DiffOf(2) = Rat(1, 2)
    /\ DiffOf(3) = Rat(1, 10)
    /\ NumViews = 1
    /\ IsPairRow(ret.value.P.data[1], 2, 1)
    /\ ret.value.Q.data[1][1] = Rat(1, 2000)

\* a symbol without headlines: missing from the dict or with an empty list
NoHeadlines(sym) ==
    sym \notin DOMAIN args.headlines_dict \/ args.headlines_dict[sym] = <<>>

\* C10: with 0 or 1 symbols, or when no difference is above the threshold,
\* the call returns normally with a P of 0 rows (and N columns), a 0 x 1 Q
\* and a 0 x 0 Omega; a symbol without headlines counts with sentiment 0.0,
\* so a single view of such a symbol has Q = -sentiment[pivot] * 0.001.
C10_EmptyViewSet ==
    ViewsDone =>
        /\ ret.kind = "return"
        /\ (NumSymbols <= 1 \/ Len(PassingIndices) = 0) =>
              /\ ret.value.P.shape = <<0, NumSymbols>>
              /\ ret.value.Q.shape = <<0, 1>>
              /\ ret.value.Omega.shape = <<0, 0>>
        /\ \A i \in 1..NumSymbols :
             NoHeadlines(args.symbols[i])
                => SentimentOf(args.headlines_dict, args.symbols[i]) = RZero
        /\ (NumSymbols = 2 /\ NoHeadlines(args.symbols[2]) /\ NumViews = 1) =>
              ret.value.Q.data[1][1]
                  = RMul(RNeg(SentimentOf(args.headlines_dict, args.symbols[1])),
                         Rat(1, 1000))

\* C10 witness: three distinct symbols, one without headlines, one exactly
\* 0.10 above it, and the empty view set returned
C10_Witness ==
    /\ ViewsDone
    /\ NumSymbols = 3 /\ DistinctSymbols
    /\ NoHeadlines(args.symbols[1])
    /\ \E i \in 2..3 : DiffOf(i) = Rat(1, 10)
    /\ ret.kind = "return"
    /\ ret.value.P.shape = <<0, 3>>
    /\ ret.value.Q.shape = <<0, 1>>
    /\ ret.value.Omega.shape = <<0, 0>>

\* the indices of set S in increasing order
RECURSIVE SortedIndices(_)
SortedIndices(S) ==
    IF S = {} THEN <<>>
    ELSE LET lo == CHOOSE x \in S : \A y \in S : x <= y
         IN  <<lo>> \o SortedIndices(S \ {lo})

\* the rows and columns of d at the indices of S
PrincipalSubmatrix(d, S) ==
    LET idx == SortedIndices(S)
    IN  [i \in 1..Len(idx) |-> [j \in 1..Len(idx) |-> d[idx[i]][idx[j]]]]

\* symmetric with every principal minor non-negative
IsPositiveSemiDefinite(m) ==
    /\ \A i, j \in 1..m.shape[1] : m.data[i][j] = m.data[j][i]
    /\ \A S \in SUBSET (1..m.shape[1]) :
         ~RGt(RZero, Det(PrincipalSubmatrix(m.data, S)))

\* tau * (Sigma[a,a] + Sigma[b,b] - 2 * Sigma[a,b]) + 1e-9
ViewVariance(a, b) ==
    LET s == args.cov_matrix.data
    IN  RAdd(RMul(Rat(25, 1000),
                  RSub(RAdd(s[a][a], s[b][b]), RMul(RInt(2), s[a][b]))),
             Rat(1, 1000000000))

\* Omega is K x K, zero off its diagonal and strictly positive on it (its
\* determinant, the product of the diagonal, is then non-zero)
OmegaIsPositiveDiagonal ==
    /\ ret.value.Omega.shape = <<NumViews, NumViews>>
    /\ \A k, l \in 1..NumViews :
         IF k = l THEN RGt(ret.value.Omega.data[k][k], RZero)
         ELSE ret.value.Omega.data[k][l] = RZero

RECURSIVE ISqrtIn(_, _, _)
ISqrtIn(n, lo, hi) ==
    IF lo = hi THEN lo
    ELSE LET mid == (lo + hi + 1) \div 2
         IN  IF mid * mid <= n THEN ISqrtIn(n, mid, hi)
             ELSE ISqrtIn(n, lo, mid - 1)

ISqrt(n) == ISqrtIn(n, 0, 46340)

IsSquare(n) == ISqrt(n) * ISqrt(n) = n

\* float nan, written 0/0
RNaN == <<0, 0>>

Real(q, c, r) == [q |-> q, c |-> c, r |-> IF c = RZero THEN ROne ELSE r]
NRat(q) == Real(q, RZero, ROne)
NZero == NRat(RZero)
NaN == Real(RNaN, RZero, ROne)
IsNaN(x) == x.q = RNaN
IsRational(x) == ~IsNaN(x) /\ x.c = RZero

\* np.sqrt of a rational: nan (with a warning) below zero
NSqrt(q) ==
    IF RGt(RZero, q) THEN NaN
    ELSE IF IsSquare(q[1]) /\ IsSquare(q[2])
    THEN NRat(Rat(ISqrt(q[1]), ISqrt(q[2])))
    ELSE Real(RZero, ROne, q)

\* x + y, for roots of one radicand
NAdd(x, y) ==
    CASE IsNaN(x) \/ IsNaN(y) -> NaN
      [] ~(IsNaN(x) \/ IsNaN(y)) /\ x.c = RZero -> Real(RAdd(x.q, y.q), y.c, y.r)
      [] ~(IsNaN(x) \/ IsNaN(y)) /\ x.c # RZero /\ y.c = RZero ->
            Real(RAdd(x.q, y.q), x.c, x.r)
      [] ~(IsNaN(x) \/ IsNaN(y)) /\ x.c # RZero /\ y.c # RZero /\ x.r = y.r ->
            Real(RAdd(x.q, y.q), RAdd(x.c, y.c), x.r)

NNeg(x) == IF IsNaN(x) THEN NaN ELSE Real(RNeg(x.q), RNeg(x.c), x.r)
NSub(x, y) == NAdd(x, NNeg(y))

\* x * y, for a rational factor or for two pure roots
NMul(x, y) ==
    CASE IsNaN(x) \/ IsNaN(y) -> NaN
      [] ~(IsNaN(x) \/ IsNaN(y)) /\ x.c = RZero ->
            Real(RMul(x.q, y.q), RMul(x.q, y.c), y.r)
      [] ~(IsNaN(x) \/ IsNaN(y)) /\ x.c # RZero /\ y.c = RZero ->
            Real(RMul(x.q, y.q), RMul(x.c, y.q), x.r)
      [] ~(IsNaN(x) \/ IsNaN(y)) /\ x.c # RZero /\ y.c # RZero
            /\ x.q = RZero /\ y.q = RZero ->
            IF x.r = y.r THEN NRat(RMul(RMul(x.c, y.c), x.r))
            ELSE LET root == NSqrt(RMul(x.r, y.r))
                 IN  Real(RMul(RMul(x.c, y.c), root.q),
                          RMul(RMul(x.c, y.c), root.c), root.r)

\* x / y, for a non-zero y that is rational or a pure root
NDiv(x, y) ==
    CASE IsNaN(x) \/ IsNaN(y) -> NaN
      [] ~(IsNaN(x) \/ IsNaN(y)) /\ y.c = RZero -> NMul(x, NRat(RDiv(ROne, y.q)))
      [] ~(IsNaN(x) \/ IsNaN(y)) /\ y.c # RZero /\ y.q = RZero ->
            NMul(x, Real(RZero, RDiv(ROne, RMul(y.c, y.r)), y.r))

RECURSIVE NSumSeq(_)
NSumSeq(s) == IF Len(s) = 0 THEN NZero ELSE NAdd(s[1], NSumSeq(Tail(s)))

\* a price coef * exp(expo); a zero or nan coef goes with expo = 0
Price(coef, expo) ==
    [coef |-> coef, expo |-> IF coef = RZero \/ coef = RNaN THEN NZero ELSE expo]
ZeroPrice == Price(RZero, NZero)
NaNPrice == Price(RNaN, NZero)

\* mutant: the arithmetic return 1 + x in place of exp(x)
PriceTimesExp_Arithmetic(p, x) ==
    IF p.coef = RNaN \/ IsNaN(x) THEN NaNPrice
    ELSE Price(RMul(p.coef, RAdd(ROne, x.q)), p.expo)

\* price * exp(x): the exponents add
PriceTimesExp(p, x) ==
    IF p.coef = RNaN \/ IsNaN(x) THEN NaNPrice
    ELSE Price(p.coef, NAdd(p.expo, x))

\* np.log(p / q) for two positive prices of one coefficient
LogRatio(p, q) ==
    CASE p.coef = q.coef /\ RGt(p.coef, RZero) -> NSub(p.expo, q.expo)

PriceIsPositive(p) == p.coef # RNaN /\ RGt(p.coef, RZero)

\* VOLATILITY_MAGNIFICATION_FACTOR_GLOBAL = 1.0
VOLATILITY_MAGNIFICATION_FACTOR_GLOBAL == RInt(1)
\* the diagonal jitter of the second decomposition, 1e-7
JitterEpsilon == Rat(1, 10000000)

\* a missing observation of the downloaded frame
Missing == NaNPrice

\* data[(sym, 'Close')] exists and is not empty
HasColumn(data, sym) == sym \in DOMAIN data /\ Len(data[sym]) > 0

\* successful_symbols: the symbols of the request that have a column
SuccessfulSymbols(symbols, data) ==
    SelectSeq(symbols, LAMBDA sym : HasColumn(data, sym))

\* prices[successful_symbols].dropna(): the dates on which every successful
\* symbol has an observation, in order
AlignedDates(syms, data) ==
    IF Len(syms) = 0 THEN <<>>
    ELSE SelectSeq([d \in 1..Len(data[syms[1]]) |-> d],
                   LAMBDA d : \A j \in 1..Len(syms) : data[syms[j]][d] # Missing)

\* the aligned price rows of the symbol at position j
AlignedPrices(syms, data, j) ==
    LET dates == AlignedDates(syms, data)
    IN  [x \in 1..Len(dates) |-> data[syms[j]][dates[x]]]

\* returns = np.log(prices / prices.shift(1)).dropna(), one column
LogReturns(col) == [x \in 1..(Len(col) - 1) |-> LogRatio(col[x + 1], col[x])]

\* returns.mean().values
MeanLogReturns(syms, data) ==
    [j \in 1..Len(syms) |->
        LET r == LogReturns(AlignedPrices(syms, data, j))
        IN  NDiv(NSumSeq(r), NRat(RInt(Len(r))))]

\* {sym: np.zeros((time_intervals, iteration)) for sym in symbols_for_mc}
PathsOf(syms, rows) ==
    [keys |-> syms,
     paths |-> [sym \in {syms[j] : j \in 1..Len(syms)} |->
                  rows[CHOOSE j \in 1..Len(syms) : syms[j] = sym]]]

ZeroFilledPaths(syms, time_intervals, iteration) ==
    PathsOf(syms, [j \in 1..Len(syms) |->
        Arr2(time_intervals, iteration,
             [t \in 1..time_intervals, k \in 1..iteration |-> ZeroPrice])])

\* the empty dict
NoPaths == PathsOf(<<>>, <<>>)

\* mutant: the retry on the matrix as it was
Jittered_NoJitter(cov) == cov

\* cov_matrix + np.eye(num_assets) * 1e-7
Jittered(cov) ==
    Arr2(cov.shape[1], cov.shape[2],
         [i \in 1..(cov.shape[1]), j \in 1..(cov.shape[2]) |-> IF i = j THEN RAdd(cov.data[i][j], JitterEpsilon) ELSE cov.data[i][j]])

\* np.linalg.cholesky reads the lower triangle: entry (i, j), j <= i, of the
\* factor, given that the pivots 1..j are positive
RECURSIVE CholeskyEntry(_, _, _)
CholeskyEntry(a, i, j) ==
    LET s == NSumSeq([k \in 1..(j - 1) |->
                 NMul(CholeskyEntry(a, i, k), CholeskyEntry(a, j, k))])
        v == NSub(NRat(a[i][j]), s)
    IN  IF i = j THEN (CASE IsRational(v) -> NSqrt(v.q))
        ELSE NDiv(v, CholeskyEntry(a, j, j))

\* a[j][j] minus the squares of the entries left of the diagonal
CholeskyPivot(a, j) ==
    NSub(NRat(a[j][j]),
         NSumSeq([k \in 1..(j - 1) |->
             NMul(CholeskyEntry(a, j, k), CholeskyEntry(a, j, k))]))

RECURSIVE PivotsPositive(_, _)
PivotsPositive(a, j) ==
    \/ j = 0
    \/ /\ PivotsPositive(a, j - 1)
       /\ (CASE IsRational(CholeskyPivot(a, j)) -> RGt(CholeskyPivot(a, j).q, RZero))

\* np.linalg.cholesky raises LinAlgError at the first non-positive pivot
CholeskyFails(m) == ~PivotsPositive(m.data, m.shape[1])

\* the lower-triangular factor of a matrix whose pivots are positive
CholeskyFactor(m) ==
    Arr2(m.shape[1], m.shape[1],
         [i \in 1..(m.shape[1]), j \in 1..(m.shape[1]) |-> IF j <= i THEN CholeskyEntry(m.data, i, j) ELSE NZero])

\* drift_vector = mean_log_returns - 0.5 * np.diag(cov_matrix)
DriftVector(mean_log_returns, cov) ==
    [i \in 1..Len(mean_log_returns) |->
        NSub(mean_log_returns[i], NRat(RMul(Rat(1, 2), cov.data[i][i])))]

\* S0_vector = prices.iloc[-1].values
S0Vector(syms, data) ==
    [j \in 1..Len(syms) |->
        LET col == AlignedPrices(syms, data, j) IN col[Len(col)]]

\* mutant: every asset shocked by its own draw alone
CorrelatedShocks_OwnDrawOnly(L, z, n, iteration, steps) ==
    [i \in 1..n |-> [k \in 1..iteration |-> [l \in 1..steps |->
        NMul(L.data[i][i], NRat(z[i][k][l]))]]]

\* np.einsum('ij,jkl->ikl', cholesky_matrix, independent_shocks)
CorrelatedShocks(L, z, n, iteration, steps) ==
    [i \in 1..n |-> [k \in 1..iteration |-> [l \in 1..steps |->
        NSumSeq([j \in 1..n |-> NMul(L.data[i][j], NRat(z[j][k][l]))])]]]

\* mutant: the correlated shocks taken as the random term, not scaled again
RandomTerm_Unscaled(shocks, cov, n, iteration, steps) == shocks

\* random_term = correlated_random_shocks * stdev_diag_cov * the factor
RandomTerm(shocks, cov, n, iteration, steps) ==
    [i \in 1..n |-> [k \in 1..iteration |-> [l \in 1..steps |->
        NMul(NMul(shocks[i][k][l], NSqrt(cov.data[i][i])),
             NRat(VOLATILITY_MAGNIFICATION_FACTOR_GLOBAL))]]]

\* all_price_paths_raw[i, k, t]: S0 at t = 0, then the loop over t
RECURSIVE PricePath(_, _, _, _)
PricePath(s0, drift, random_term, t) ==
    IF t = 0 THEN s0
    ELSE PriceTimesExp(PricePath(s0, drift, random_term, t - 1),
                       NAdd(drift, random_term[t]))

\* simulated_paths_dict[sym] = all_price_paths_raw[i, :, :].T
SimulatedPaths(syms, S0, drift, random_term, time_intervals, iteration) ==
    PathsOf(syms, [i \in 1..Len(syms) |->
        Arr2(time_intervals, iteration,
             [t \in 1..time_intervals, k \in 1..iteration |-> PricePath(S0[i], drift[i], random_term[i][k], t - 1)])])

(***************************************************************************)
(* SpecMonteCarlo: one call of get_MonteCarloPaths_CorrelatedMultiAsset,   *)
(* step by step.  The request lists the first n symbols of SymbolOrder     *)
(* (pairwise distinct); the download has a column for some of them; the    *)
(* asset at position j trades at j * exp(j * d) on date d, so its log      *)
(* returns are all j; with a gap the first symbol misses the first date.   *)
(***************************************************************************)
HistoryShapes ==
    {[dates |-> 0, gap |-> FALSE], [dates |-> 1, gap |-> FALSE],
     [dates |-> 2, gap |-> FALSE], [dates |-> 2, gap |-> TRUE],
     [dates |-> 3, gap |-> FALSE], [dates |-> 3, gap |-> TRUE]}

HistoryColumn(j, h) ==
    [d \in 1..h.dates |->
        IF h.gap /\ j = 1 /\ d = 1 THEN Missing
        ELSE Price(RInt(j), NRat(RInt(j * d)))]

Downloads(n, h) ==
    {[sym \in {SymbolOrder[j] : j \in present} |->
         HistoryColumn(CHOOSE j \in 1..n : SymbolOrder[j] = sym, h)] :
       present \in SUBSET (1..n)}

\* covariance arguments of size m: the identity; variances 4 and 1 with
\* correlation 0.6; the zero matrix; a zero variance next to unit ones; the
\* negated identity; a variance of -5e-8 next to unit ones
CovKinds == {"unit", "wide", "zero", "semi", "neg", "tiny"}

CovOfKind(kind, m) ==
    Arr2(m, m, [i \in 1..m, j \in 1..m |->
        CASE kind = "unit" -> RInt(IF i = j THEN 1 ELSE 0)
          [] kind = "wide" -> IF i = j THEN RInt(IF i = 1 THEN 4 ELSE 1)
                              ELSE IF i <= 2 /\ j <= 2 THEN Rat(6, 5) ELSE RZero
          [] kind = "zero" -> RZero
          [] kind = "semi" -> RInt(IF i = j /\ i > 1 THEN 1 ELSE 0)
          [] kind = "neg" -> RInt(IF i = j THEN -1 ELSE 0)
          [] kind = "tiny" -> IF i # j THEN RZero
                              ELSE IF i = 1 THEN Rat(-1, 20000000) ELSE ROne])

CovArguments == {CovOfKind(kind, m) : kind \in CovKinds, m \in 1..MaxAssets}

\* the standard normal draws z[j][k][l] of asset j, run k, step l: all zero,
\* +1 / -1 by asset, or varying with asset, run and step
DrawPatterns == {"zero", "asset", "mixed"}

Draws(pattern, n, iteration, steps) ==
    [j \in 1..n |-> [k \in 1..iteration |-> [l \in 1..steps |->
        CASE pattern = "zero" -> RZero
          [] pattern = "asset" -> RInt(IF j % 2 = 1 THEN 1 ELSE -1)
          [] pattern = "mixed" -> RInt(((j + 2 * k + l) % 3) - 1)]]]

InitMonteCarlo ==
    /\ pc = "call"
    /\ ret = NoResult
    /\ frame = NoFrame
    /\ server = NoServer
    /\ \E n \in 0..MaxAssets, h \in HistoryShapes :
         \E data \in Downloads(n, h),
            cov \in CovArguments,
            time_intervals \in 0..(MaxSteps + 1),
            iteration \in 1..MaxRuns :
           args = [fn |-> "get_MonteCarloPaths_CorrelatedMultiAsset",
                   symbols |-> [j \in 1..n |-> SymbolOrder[j]],
                   data |-> data, cov_matrix |-> cov,
                   time_intervals |-> time_intervals, iteration |-> iteration]

InMonteCarlo == args.fn = "get_MonteCarloPaths_CorrelatedMultiAsset"

\* lines 35-73: the download and the selection of the symbols with data
MCSelectSymbols ==
    /\ pc = "call" /\ InMonteCarlo
    /\ LET syms == SuccessfulSymbols(args.symbols, args.data)
       IN  IF Len(args.symbols) = 0 \/ Len(syms) = 0
           THEN /\ ret' = Return(NoPaths)
                /\ pc' = "done"
                /\ UNCHANGED frame
           ELSE /\ frame' = [at |-> "prices", symbols_for_mc |-> syms,
                             prices |-> [j \in 1..Len(syms) |->
                                            AlignedPrices(syms, args.data, j)]]
                /\ pc' = "prices"
                /\ UNCHANGED ret
    /\ UNCHANGED args
    /\ UNCHANGED server

\* lines 75-89: too few observations give zero-filled paths
MCLogReturns ==
    /\ pc = "prices" /\ InMonteCarlo
    /\ IF Len(frame.prices[1]) < 2 \/ Len(LogReturns(frame.prices[1])) = 0
       THEN /\ ret' = Return(ZeroFilledPaths(frame.symbols_for_mc,
                                args.time_intervals, args.iteration))
            /\ pc' = "done"
            /\ UNCHANGED frame
       ELSE /\ frame' = [at |-> "shape", symbols_for_mc |-> frame.symbols_for_mc,
                         prices |-> frame.prices,
                         mean_log_returns |->
                             MeanLogReturns(frame.symbols_for_mc, args.data)]
            /\ pc' = "shape"
            /\ UNCHANGED ret
    /\ UNCHANGED args
    /\ UNCHANGED server

\* lines 91-93: the shape of cov_matrix against the symbols with data
MCCheckShape ==
    /\ pc = "shape" /\ InMonteCarlo
    /\ IF args.cov_matrix.shape
            # <<Len(frame.symbols_for_mc), Len(frame.symbols_for_mc)>>
       THEN /\ ret' = Raise("ValueError")
            /\ pc' = "done"
       ELSE /\ pc' = "cholesky"
            /\ UNCHANGED ret
    /\ UNCHANGED <<args, frame>>
    /\ UNCHANGED server

\* lines 95-96: the decomposition of cov_matrix as given
MCCholesky ==
    /\ pc = "cholesky" /\ InMonteCarlo
    /\ IF CholeskyFails(args.cov_matrix)
       THEN /\ pc' = "jitter"
            /\ UNCHANGED frame
       ELSE /\ frame' = [at |-> "simulate",
                         symbols_for_mc |-> frame.symbols_for_mc,
                         prices |-> frame.prices,
                         mean_log_returns |-> frame.mean_log_returns,
                         cholesky_matrix |-> CholeskyFactor(args.cov_matrix),
                         retried |-> FALSE]
            /\ pc' = "simulate"
    /\ UNCHANGED <<args, ret>>
    /\ UNCHANGED server

\* lines 97-104: the except branch, one more decomposition after the jitter
MCCholeskyJittered ==
    /\ pc = "jitter" /\ InMonteCarlo
    /\ IF CholeskyFails(Jittered(args.cov_matrix))
       THEN /\ ret' = Return(ZeroFilledPaths(frame.symbols_for_mc,
                                args.time_intervals, args.iteration))
            /\ pc' = "done"
            /\ UNCHANGED frame
       ELSE /\ frame' = [at |-> "simulate",
                         symbols_for_mc |-> frame.symbols_for_mc,
                         prices |-> frame.prices,
                         mean_log_returns |-> frame.mean_log_returns,
                         cholesky_matrix |->
                             CholeskyFactor(Jittered(args.cov_matrix)),
                         retried |-> TRUE]
            /\ pc' = "simulate"
            /\ UNCHANGED ret
    /\ UNCHANGED args
    /\ UNCHANGED server

\* lines 112-131: drift, S0, the draws and the random term; writing S0 to
\* step 0 of an array without steps raises IndexError
MCDrawShocks ==
    /\ pc = "simulate" /\ InMonteCarlo
    /\ IF args.time_intervals = 0
       THEN /\ ret' = Raise("IndexError")
            /\ pc' = "done"
            /\ UNCHANGED frame
       ELSE /\ \E pattern \in DrawPatterns :
                 LET n == Len(frame.symbols_for_mc)
                     steps == args.time_intervals - 1
                     z == Draws(pattern, n, args.iteration, steps)
                     shocks == CorrelatedShocks(frame.cholesky_matrix, z, n,
                                                args.iteration, steps)
                 IN  frame' = [at |-> "accumulate",
                               symbols_for_mc |-> frame.symbols_for_mc,
                               prices |-> frame.prices,
                               mean_log_returns |-> frame.mean_log_returns,
                               cholesky_matrix |-> frame.cholesky_matrix,
                               retried |-> frame.retried,
                               drift_vector |->
                                   DriftVector(frame.mean_log_returns,
                                               args.cov_matrix),
                               S0_vector |->
                                   S0Vector(frame.symbols_for_mc, args.data),
                               independent_shocks |-> z,
                               correlated_random_shocks |-> shocks,
                               random_term |->
                                   RandomTerm(shocks, args.cov_matrix, n,
                                              args.iteration, steps)]
            /\ pc' = "accumulate"
            /\ UNCHANGED ret
    /\ UNCHANGED args
    /\ UNCHANGED server

\* lines 144-164: the loop over the steps and the dict of transposed paths
MCAccumulate ==
    /\ pc = "accumulate" /\ InMonteCarlo
    /\ ret' = Return(SimulatedPaths(frame.symbols_for_mc, frame.S0_vector,
                         frame.drift_vector, frame.random_term,
                         args.time_intervals, args.iteration))
    /\ pc' = "done"
    /\ UNCHANGED <<args, frame>>
    /\ UNCHANGED server

NextMonteCarlo ==
    \/ MCSelectSymbols
    \/ MCLogReturns
    \/ MCCheckShape
    \/ MCCholesky
    \/ MCCholeskyJittered
    \/ MCDrawShocks
    \/ MCAccumulate

SpecMonteCarlo == InitMonteCarlo /\ [][NextMonteCarlo]_vars

(***************************************************************************)
(* Claims about get_MonteCarloPaths_CorrelatedMultiAsset, checked under    *)
(* SpecMonteCarlo.                                                         *)
(***************************************************************************)
MCDone == pc = "done" /\ InMonteCarlo

\* the symbols of the request that have data, and their number N
SymbolsWithData == SuccessfulSymbols(args.symbols, args.data)
NumWithData == Len(SymbolsWithData)

\* the number of price observations left after alignment
NumObservations == Len(AlignedDates(SymbolsWithData, args.data))

SigmaShapeMatches == args.cov_matrix.shape = <<NumWithData, NumWithData>>

\* the array returned for the symbol at position j of the symbols with data
PathOf(j) == ret.value.paths[SymbolsWithData[j]]

\* the result is a dict with one time_intervals x iteration array per symbol
\* with data
ReturnsShapedPaths ==
    /\ ret.kind = "return"
    /\ ret.value.keys = SymbolsWithData
    /\ \A j \in 1..NumWithData :
         PathOf(j).shape = <<args.time_intervals, args.iteration>>

ReturnsZeroFilledPaths ==
    /\ ReturnsShapedPaths
    /\ \A j \in 1..NumWithData :
         \A t \in 1..args.time_intervals, k \in 1..args.iteration :
           PathOf(j).data[t][k] = ZeroPrice

\* C12 (as claimed): every call in which Sigma's shape differs from (N, N),
\* N >= 1 the number of symbols that have data, ends in an error raised to
\* the caller and returns no paths, degraded or otherwise.
C12_MismatchAlwaysRaises ==
    (MCDone /\ NumWithData >= 1 /\ ~SigmaShapeMatches) => ret.kind = "raise"

\* Sigma with 1e-7 added to every diagonal entry
PlusJitter(m) ==
    [shape |-> m.shape,
     data |-> [i \in 1..m.shape[1] |-> [j \in 1..m.shape[2] |->
                 IF i = j THEN RAdd(m.data[i][j], Rat(1, 10000000))
                 ELSE m.data[i][j]]]]

\* the call gets as far as the decomposition of Sigma
ReachesCholesky == NumWithData >= 1 /\ NumObservations >= 2 /\ SigmaShapeMatches

FirstCholeskyFails == CholeskyFails(args.cov_matrix)
RetryFails == CholeskyFails(PlusJitter(args.cov_matrix))

\* L * L^T = m, entry by entry
IsFactorOf(L, m) ==
    \A i, j \in 1..m.shape[1] :
        NSumSeq([k \in 1..m.shape[1] |-> NMul(L.data[i][k], L.data[j][k])])
            = NRat(m.data[i][j])

\* the last observed price of the symbol at position j
LastObservedPrice(j) ==
    LET col == args.data[SymbolsWithData[j]] IN col[Len(col)]

\* the call went through the simulation: shaped paths whose step 0 is the
\* last observed price in every run, or IndexError without any step
SimulationRan ==
    IF args.time_intervals = 0
    THEN ret = Raise("IndexError")
    ELSE /\ ReturnsShapedPaths
         /\ \A j \in 1..NumWithData : \A k \in 1..args.iteration :
              PathOf(j).data[1][k] = LastObservedPrice(j)

\* the call went on to the simulation with a factor L
SimulatedOnFactor == "cholesky_matrix" \in DOMAIN frame

C13_Outcomes ==
    (MCDone /\ ReachesCholesky) =>
        /\ (FirstCholeskyFails /\ RetryFails) => ReturnsZeroFilledPaths
        /\ (FirstCholeskyFails /\ ~RetryFails) =>
              /\ SimulatedOnFactor
              /\ frame.retried
              /\ IsFactorOf(frame.cholesky_matrix, PlusJitter(args.cov_matrix))
              /\ SimulationRan
        /\ ~FirstCholeskyFails =>
              /\ SimulatedOnFactor
              /\ ~frame.retried
              /\ IsFactorOf(frame.cholesky_matrix, args.cov_matrix)
              /\ SimulationRan

C13_RetryStep ==
    /\ (pc' = "jitter" /\ pc # "jitter") => (pc = "cholesky" /\ FirstCholeskyFails)
    /\ pc = "jitter" => pc' \in {"simulate", "done"}

\* C13: when the Cholesky decomposition of Sigma fails, the simulator
\* decomposes Sigma + 1e-7 * I, once (the retry is entered only from the
\* failed first attempt and is left at once, for the simulation or for the
\* return); if that fails too the call returns, for every symbol with data,
\* a zero-filled array of shape time_intervals x iterations and raises
\* nothing; if it succeeds the simulation runs on the factor of the
\* jittered matrix as it does on the factor of Sigma after a first success.
C13_RetryOnceThenZeroFilled == [](C13_Outcomes) /\ [][C13_RetryStep]_vars

\* C13 witness: two symbols with data, the negated identity fails both
\* decompositions and zero-filled 3 x 2 arrays come back
C13_Witness ==
    /\ MCDone
    /\ NumWithData = 2
    /\ ReachesCholesky
    /\ FirstCholeskyFails /\ RetryFails
    /\ args.time_intervals = 3 /\ args.iteration = 2
    /\ ReturnsZeroFilledPaths

\* the retry succeeded and the simulation ran on the jittered factor
C13_RetrySucceeded ==
    /\ MCDone
    /\ NumWithData = 2
    /\ ReachesCholesky
    /\ FirstCholeskyFails /\ ~RetryFails
    /\ frame.retried
    /\ args.time_intervals = 3
    /\ ReturnsShapedPaths
    /\ PathOf(2).data[3][1] # PathOf(2).data[1][1]

\* the call ran the simulation to its end and returned paths
SimulationSucceeded == MCDone /\ ret.kind = "return" /\ frame.at = "accumulate"

\* drift_i = mean_return_i - 0.5 * Sigma[i,i]
DriftOf(j) ==
    NSub(frame.mean_log_returns[j],
         NRat(RMul(Rat(1, 2), args.cov_matrix.data[j][j])))

\* the correlated shock of asset j in run k at step l
ShockOf(j, k, l) == frame.correlated_random_shocks[j][k][l]

\* the standard deviation sqrt(Sigma[j,j]) of asset j
StdevOf(j) == NSqrt(args.cov_matrix.data[j][j])

\* T rows and iterations columns per asset, and row 0 the last observed price
ShapedFromLastPrice ==
    /\ ReturnsShapedPaths
    /\ \A j \in 1..NumWithData : \A k \in 1..args.iteration :
         PathOf(j).data[1][k] = LastObservedPrice(j)

\* C14 (as claimed): in every successful simulation each asset's output has
\* time_intervals rows and iterations columns, row 0 is the asset's last
\* observed price in every run, and row t is row t-1 times
\* exp(drift_i + shock_i), shock_i the correlated shock of step t-1 and
\* drift_i = mean_return_i - 0.5 * Sigma[i,i].
C14_StepIsDriftPlusShock ==
    SimulationSucceeded =>
        /\ ShapedFromLastPrice
        /\ \A j \in 1..NumWithData :
             \A t \in 2..args.time_intervals, k \in 1..args.iteration :
               PathOf(j).data[t][k]
                   = PriceTimesExp(PathOf(j).data[t - 1][k],
                                   NAdd(DriftOf(j), ShockOf(j, k, t - 1)))

\* C14 (amended): as above, with row t equal to row t-1 times
\* exp(drift_i + sqrt(Sigma[i,i]) * shock_i): the correlated shock enters
\* scaled by the asset's own standard deviation.
C14_StepIsDriftPlusScaledShock ==
    SimulationSucceeded =>
        /\ ShapedFromLastPrice
        /\ \A j \in 1..NumWithData :
             \A t \in 2..args.time_intervals, k \in 1..args.iteration :
               PathOf(j).data[t][k]
                   = PriceTimesExp(PathOf(j).data[t - 1][k],
                                   NAdd(DriftOf(j),
                                        NMul(ShockOf(j, k, t - 1), StdevOf(j))))

\* C14 witness: variance 4, three observations ending at exp(3), drift
\* 1 - 2, correlated shock -2 in run 2 at step 0: row 1 is exp(3 - 1 - 4)
C14_Witness ==
    /\ SimulationSucceeded
    /\ NumWithData = 2
    /\ args.time_intervals = 3 /\ args.iteration = 2
    /\ args.cov_matrix.data[1][1] = RInt(4)
    /\ LastObservedPrice(1) = Price(ROne, NRat(RInt(3)))
    /\ ShockOf(1, 2, 1) = NRat(RInt(-2))
    /\ PathOf(1).data[2][2] = Price(ROne, NRat(RInt(-2)))

AllPricesPositive ==
    \A j \in 1..NumWithData :
        \A t \in 1..args.time_intervals, k \in 1..args.iteration :
            PriceIsPositive(PathOf(j).data[t][k])

AllS0Positive == \A j \in 1..NumWithData : PriceIsPositive(LastObservedPrice(j))

C16_ShocksCombineSameDraws ==
    (InMonteCarlo /\ frame.at = "accumulate") =>
        LET n == NumWithData
            L == frame.cholesky_matrix
            z == frame.independent_shocks
        IN  /\ IsFactorOf(L, IF frame.retried THEN PlusJitter(args.cov_matrix)
                             ELSE args.cov_matrix)
            /\ \A i, j \in 1..n : j > i => L.data[i][j] = NZero
            /\ Len(z) = n
            /\ \A i \in 1..n :
                 /\ Len(z[i]) = args.iteration
                 /\ \A k \in 1..args.iteration :
                      /\ Len(z[i][k]) = args.time_intervals - 1
                      /\ \A l \in 1..(args.time_intervals - 1) :
                           ShockOf(i, k, l)
                               = NSumSeq([j \in 1..n |->
                                     NMul(L.data[i][j], NRat(z[j][k][l]))])

\* C16 witness: correlation 0.6, draws +1 and -1 of the two assets at
\* (run 1, step 1): the second asset's shock is 3/5 - 4/5
C16_Witness ==
    /\ InMonteCarlo /\ frame.at = "accumulate"
    /\ NumWithData = 2
    /\ args.time_intervals = 3
    /\ frame.cholesky_matrix.data[2][1] = NRat(Rat(3, 5))
    /\ frame.independent_shocks[1][1][2] = ROne
    /\ frame.independent_shocks[2][1][2] = RNeg(ROne)
    /\ ShockOf(2, 1, 2) = NRat(Rat(-1, 5))

(***************************************************************************)
(* Further claims about simulate_portfolio_value, checked under            *)
(* SpecPortfolio.                                                          *)
(***************************************************************************)
\* num_shares of the call
SharesOfCall ==
    NumShares(args.initial_portfolio_value, Flatten(args.optimal_weights),
              args.simulated_asset_paths)

\* C17: an asset whose price at step 0 (of run 0) is zero is assigned zero
\* shares and the call returns without a division by zero; every other
\* asset is assigned initial_value * weight_j / price_j[0] shares; the
\* values of the steps after step 0 are those of these holdings.
C17_ZeroPriceZeroShares ==
    PortfolioDone =>
        /\ ret.kind = "return"
        /\ \A j \in 1..args.n :
             /\ PriceOf(j, 1, 1) = RZero => SharesOfCall[j] = RZero
             /\ PriceOf(j, 1, 1) # RZero =>
                  RMul(SharesOfCall[j], PriceOf(j, 1, 1))
                      = RMul(args.initial_portfolio_value,
                             args.optimal_weights.data[j][1])
        /\ \A t \in 2..args.steps, i \in 1..args.runs :
             ret.value.data[t][i]
                 = RSumSeq([j \in 1..args.n |->
                       RMul(SharesOfCall[j], PriceOf(j, t, i))])

\* C17 witness: a weighted asset priced zero at step 0 of run 0 and above
\* zero later, next to an asset priced 2 with weight 1/2 (25 shares), and a
\* value at step 1 that is the second asset's holding alone
C17_Witness ==
    /\ PortfolioDone
    /\ args.n = 2 /\ args.steps = 2 /\ args.runs = 2
    /\ PriceOf(1, 1, 1) = RZero /\ PriceOf(1, 2, 2) # RZero
    /\ args.optimal_weights.data[1][1] = ROne
    /\ PriceOf(2, 1, 1) = RInt(2)
    /\ args.optimal_weights.data[2][1] = Rat(1, 2)
    /\ SharesOfCall = <<RZero, RInt(25)>>
    /\ ret.kind = "return"
    /\ ret.value.data[2][2] = RMul(RInt(25), PriceOf(2, 2, 2))

\* a call on a single asset with the weight vector [1.0]
SingleAssetFullWeight ==
    /\ PortfolioDone
    /\ args.n = 1
    /\ args.optimal_weights.data[1][1] = ROne

\* C18 (as claimed): with a single asset and weight [1.0], for every step
\* t, step 0 included, and every run i the value is
\* (initial_value / price[0]) * price[t, i], price[0] the price at step 0.
C18_SingleAssetScaledAtEveryStep ==
    SingleAssetFullWeight =>
        /\ ret.kind = "return"
        /\ PriceOf(1, 1, 1) # RZero
        /\ \A t \in 1..args.steps, i \in 1..args.runs :
             ret.value.data[t][i]
                 = RMul(RDiv(args.initial_portfolio_value, PriceOf(1, 1, 1)),
                        PriceOf(1, t, i))

\* C18 (amended): with a single asset and weight [1.0], the value at step 0
\* is initial_value in every run; at every step t >= 1 of every run i it is
\* (initial_value / price[0, 0]) * price[t, i] when price[0, 0] is not zero
\* and 0 when it is.
C18_SingleAssetScaledAfterStepZero ==
    SingleAssetFullWeight =>
        /\ ret.kind = "return"
        /\ \A i \in 1..args.runs :
             ret.value.data[1][i] = args.initial_portfolio_value
        /\ \A t \in 2..args.steps, i \in 1..args.runs :
             ret.value.data[t][i]
                 = IF PriceOf(1, 1, 1) = RZero THEN RZero
                   ELSE RMul(RDiv(args.initial_portfolio_value, PriceOf(1, 1, 1)),
                             PriceOf(1, t, i))

\* C18 witness: a single asset priced 2 at step 0 of run 0 and 3 at step 0
\* of run 1; at step 1 the value is 50 times the price
C18_Witness ==
    /\ SingleAssetFullWeight
    /\ args.steps = 2 /\ args.runs = 2
    /\ PriceOf(1, 1, 1) = RInt(2) /\ PriceOf(1, 1, 2) = RInt(3)
    /\ ret.kind = "return"
    /\ ret.value.data[1][2] = RInt(100)
    /\ ret.value.data[2][2] = RMul(RInt(50), PriceOf(1, 2, 2))
    /\ PriceOf(1, 2, 2) # PriceOf(1, 1, 2)

(***************************************************************************)
(* SpecEquilibrium: one call of get_implied_equilibrium_returns_and_cov,   *)
(* step by step.  The request lists the first n symbols of SymbolOrder;    *)
(* the download has a column for some of them; the asset at position j     *)
(* trades at exp((d * (d + j)) % 5) on date d; with a gap the first symbol *)
(* misses the first date.  yf.Ticker(sym).info answers with a market cap,  *)
(* with no market cap, or raises.                                          *)
(***************************************************************************)
EqHistoryColumn(j, h) ==
    [d \in 1..h.dates |->
        IF h.gap /\ j = 1 /\ d = 1 THEN Missing
        ELSE Price(ROne, NRat(RInt((d * (d + j)) % 5)))]

EqDownloads(n, h) ==
    {[sym \in {SymbolOrder[j] : j \in present} |->
         EqHistoryColumn(CHOOSE j \in 1..n : SymbolOrder[j] = sym, h)] :
       present \in SUBSET (1..n)}

\* what yf.Ticker(sym).info gives for 'marketCap': a number, None, or an
\* exception of the lookup
CapOf(v) == [kind |-> "cap", value |-> v]
NoCap == [kind |-> "none"]
CapRaises == [kind |-> "raise"]
CapOutcomes == {CapOf(0), CapOf(1), CapOf(3), NoCap, CapRaises}

\* if market_cap: a number other than 0
CapIsTruthy(c) == c.kind = "cap" /\ c.value # 0

\* returns.cov(): the sample covariance (ddof = 1) of the columns of log
\* returns; nan for a single row
CovarianceOfReturns(returns) ==
    LET n == Len(returns)
        rows == Len(returns[1])
        mean(j) == NDiv(NSumSeq(returns[j]), NRat(RInt(rows)))
        dev(j, x) == NSub(returns[j][x], mean(j))
    IN  Arr2(n, n, [i \in 1..n, j \in 1..n |->
            IF rows < 2 THEN NaN
            ELSE NDiv(NSumSeq([x \in 1..rows |-> NMul(dev(i, x), dev(j, x))]),
                      NRat(RInt(rows - 1)))])

\* mutant: the mean of the first column only
MeanOfMeans_FirstColumn(returns) ==
    NDiv(NSumSeq(returns[1]), NRat(RInt(Len(returns[1]))))

\* returns.mean().mean(): the mean of the columns' means
MeanOfMeans(returns) ==
    LET n == Len(returns)
    IN  NDiv(NSumSeq([j \in 1..n |->
                 NDiv(NSumSeq(returns[j]), NRat(RInt(Len(returns[j]))))]),
             NRat(RInt(n)))

\* np.full((num_assets, 1), returns.mean().mean())
UniformImpliedReturns(returns) ==
    Arr2(Len(returns), 1,
         [i \in 1..Len(returns), j \in 1..1 |-> MeanOfMeans(returns)])

\* market_cap_weights = np.array(market_caps) / np.sum(market_caps)
MarketCapWeights(market_caps) ==
    LET total == RSumSeq([j \in 1..Len(market_caps) |-> RInt(market_caps[j])])
    IN  [j \in 1..Len(market_caps) |-> RDiv(RInt(market_caps[j]), total)]

\* risk_aversion * cov_matrix_daily.values @ market_cap_weights.reshape(-1, 1)
MarketImpliedReturns(risk_aversion, cov, market_caps) ==
    LET n == Len(market_caps)
        w == MarketCapWeights(market_caps)
    IN  Arr2(n, 1, [i \in 1..n, c \in 1..1 |->
            NMul(NRat(risk_aversion),
                 NSumSeq([j \in 1..n |-> NMul(cov.data[i][j], NRat(w[j]))]))])

InitEquilibrium ==
    /\ pc = "call"
    /\ ret = NoResult
    /\ frame = NoFrame
    /\ server = NoServer
    /\ \E n \in 0..MaxAssets, h \in HistoryShapes :
         \E data \in EqDownloads(n, h),
            caps \in [{SymbolOrder[j] : j \in 1..n} -> CapOutcomes],
            risk_aversion \in RiskAversions :
           args = [fn |-> "get_implied_equilibrium_returns_and_cov",
                   symbols |-> [j \in 1..n |-> SymbolOrder[j]],
                   data |-> data, caps |-> caps,
                   risk_aversion |-> risk_aversion]

InEquilibrium == args.fn = "get_implied_equilibrium_returns_and_cov"

\* lines 61-94: the download and the selection of the symbols with data
EqSelectSymbols ==
    /\ pc = "call" /\ InEquilibrium
    /\ LET syms == SuccessfulSymbols(args.symbols, args.data)
       IN  IF Len(syms) = 0
           THEN /\ ret' = Raise("ValueError")
                /\ pc' = "done"
                /\ UNCHANGED frame
           ELSE /\ frame' = [at |-> "prices", final_symbols |-> syms,
                             prices |-> [j \in 1..Len(syms) |->
                                            AlignedPrices(syms, args.data, j)]]
                /\ pc' = "prices"
                /\ UNCHANGED ret
    /\ UNCHANGED args
    /\ UNCHANGED server

\* mutant: too few rows give empty statistics in place of the error
EqLogReturns_EmptyStatistics ==
    /\ pc = "prices" /\ InEquilibrium
    /\ IF Len(frame.prices[1]) < 2 \/ Len(LogReturns(frame.prices[1])) = 0
       THEN /\ ret' = Return(<<Arr2(0, 1, [i \in 1..0, j \in 1..1 |-> NZero]),
                               Arr2(0, 0, [i \in 1..0, j \in 1..0 |-> NZero]),
                               <<>>>>)
            /\ pc' = "done"
            /\ UNCHANGED frame
       ELSE /\ frame' = [at |-> "returns", final_symbols |-> frame.final_symbols,
                         returns |-> [j \in 1..Len(frame.prices) |->
                                         LogReturns(frame.prices[j])]]
            /\ pc' = "returns"
            /\ UNCHANGED ret
    /\ UNCHANGED args
    /\ UNCHANGED server

\* lines 96-108: fewer than 2 aligned rows, or no returns, raise
EqLogReturns ==
    /\ pc = "prices" /\ InEquilibrium
    /\ IF Len(frame.prices[1]) < 2 \/ Len(LogReturns(frame.prices[1])) = 0
       THEN /\ ret' = Raise("ValueError")
            /\ pc' = "done"
            /\ UNCHANGED frame
       ELSE /\ frame' = [at |-> "returns", final_symbols |-> frame.final_symbols,
                         returns |-> [j \in 1..Len(frame.prices) |->
                                         LogReturns(frame.prices[j])]]
            /\ pc' = "returns"
            /\ UNCHANGED ret
    /\ UNCHANGED args
    /\ UNCHANGED server

\* lines 109-123: the covariance, and the start of the market cap loop
EqCovariance ==
    /\ pc = "returns" /\ InEquilibrium
    /\ frame' = [at |-> "caps", final_symbols |-> frame.final_symbols,
                 returns |-> frame.returns,
                 cov_matrix_daily |-> CovarianceOfReturns(frame.returns),
                 market_caps |-> <<>>,
                 all_market_caps_found |-> TRUE]
    /\ pc' = "caps"
    /\ UNCHANGED <<args, ret>>
    /\ UNCHANGED server

\* lines 124-132: one pass of the loop over final_symbols; a lookup that
\* raises leaves the try block, a missing cap breaks the loop
EqFetchCap ==
    /\ pc = "caps" /\ InEquilibrium
    /\ Len(frame.market_caps) < Len(frame.final_symbols)
    /\ LET sym == frame.final_symbols[Len(frame.market_caps) + 1]
           info == args.caps[sym]
       IN  CASE info.kind = "raise" ->
                  /\ pc' = "except"
                  /\ UNCHANGED frame
             [] info.kind # "raise" /\ CapIsTruthy(info) ->
                  /\ frame' = [frame EXCEPT
                                  !.market_caps = Append(@, info.value)]
                  /\ pc' = "caps"
             [] info.kind # "raise" /\ ~CapIsTruthy(info) ->
                  /\ frame' = [frame EXCEPT !.all_market_caps_found = FALSE]
                  /\ pc' = "implied"
    /\ UNCHANGED <<args, ret>>
    /\ UNCHANGED server

\* the loop ends after the last symbol
EqCapsFetched ==
    /\ pc = "caps" /\ InEquilibrium
    /\ Len(frame.market_caps) = Len(frame.final_symbols)
    /\ pc' = "implied"
    /\ UNCHANGED <<args, ret, frame>>
    /\ UNCHANGED server

\* lines 134-139 and 145: Pi from the market cap weights, or the uniform
\* mean, and the returned tuple
EqImpliedReturns ==
    /\ pc = "implied" /\ InEquilibrium
    /\ LET implied_returns_daily ==
               IF frame.all_market_caps_found /\ Len(frame.market_caps) > 0
               THEN MarketImpliedReturns(args.risk_aversion,
                        frame.cov_matrix_daily, frame.market_caps)
               ELSE UniformImpliedReturns(frame.returns)
       IN  ret' = Return(<<implied_returns_daily, frame.cov_matrix_daily,
                           frame.final_symbols>>)
    /\ pc' = "done"
    /\ UNCHANGED <<args, frame>>
    /\ UNCHANGED server

\* lines 141-145: the exception of a lookup gives the uniform mean
EqCapsRaised ==
    /\ pc = "except" /\ InEquilibrium
    /\ ret' = Return(<<UniformImpliedReturns(frame.returns),
                       frame.cov_matrix_daily, frame.final_symbols>>)
    /\ pc' = "done"
    /\ UNCHANGED <<args, frame>>
    /\ UNCHANGED server

NextEquilibrium ==
    \/ EqSelectSymbols
    \/ EqLogReturns
    \/ EqCovariance
    \/ EqFetchCap
    \/ EqCapsFetched
    \/ EqImpliedReturns
    \/ EqCapsRaised

SpecEquilibrium == InitEquilibrium /\ [][NextEquilibrium]_vars

(***************************************************************************)
(* Claims about get_implied_equilibrium_returns_and_cov, checked under     *)
(* SpecEquilibrium.                                                        *)
(***************************************************************************)
EqDone == pc = "done" /\ InEquilibrium

\* the symbols of the request that have data, and their aligned dates
EqSymbolsWithData == SuccessfulSymbols(args.symbols, args.data)
EqNumWithData == Len(EqSymbolsWithData)
EqNumObservations == Len(AlignedDates(EqSymbolsWithData, args.data))

\* the call has the data to estimate returns: it gets to the market caps
EqHasReturns == EqNumWithData >= 1 /\ EqNumObservations >= 2

\* a market cap is missing (None or 0) for a symbol with data, or its
\* lookup raises
CapsUnavailable ==
    \E j \in 1..EqNumWithData : ~CapIsTruthy(args.caps[EqSymbolsWithData[j]])

\* the log return of the symbol at position j between the aligned dates x
\* and x + 1
ReturnOf(j, x) ==
    LET col == AlignedPrices(EqSymbolsWithData, args.data, j)
    IN  LogRatio(col[x + 1], col[x])

\* the mean of all the log returns of all the symbols with data
OverallMeanReturn ==
    LET cells == EqNumWithData * (EqNumObservations - 1)
    IN  NDiv(NSumSeq([k \in 1..cells |->
                 ReturnOf(((k - 1) % EqNumWithData) + 1,
                          ((k - 1) \div EqNumWithData) + 1)]),
             NRat(RInt(cells)))

\* cap_j / sum of caps, over the symbols with data
CapWeight(j) ==
    LET total == RSumSeq([k \in 1..EqNumWithData |->
                     RInt(args.caps[EqSymbolsWithData[k]].value)])
    IN  RDiv(RInt(args.caps[EqSymbolsWithData[j]].value), total)

\* entry i of risk_aversion * Sigma * w, Sigma the returned covariance
CapImpliedReturn(i) ==
    NMul(NRat(args.risk_aversion),
         NSumSeq([j \in 1..EqNumWithData |->
             NMul(ret.value[2].data[i][j], NRat(CapWeight(j)))]))

\* C19: a call that has returns for its symbols does not fail whatever the
\* market cap lookups give; when a cap is missing for a symbol or a lookup
\* raises, Pi is an N x 1 vector whose every entry is the overall
\* historical mean return; when every cap is available
\* Pi = risk_aversion * Sigma * (cap_i / sum of caps).
C19_PiFallsBackToOverallMean ==
    (EqDone /\ EqHasReturns) =>
        /\ ret.kind = "return"
        /\ ret.value[1].shape = <<EqNumWithData, 1>>
        /\ ret.value[3] = EqSymbolsWithData
        /\ \A i \in 1..EqNumWithData :
             ret.value[1].data[i][1]
                 = IF CapsUnavailable THEN OverallMeanReturn
                   ELSE CapImpliedReturn(i)

\* C19 witness: two symbols with three aligned observations; the first has
\* a market cap and the lookup of the second raises; Pi is the overall mean
\* -3/4 in both rows, which is the mean of neither symbol's own returns
C19_Witness ==
    /\ EqDone /\ EqHasReturns
    /\ EqNumWithData = 2 /\ EqNumObservations = 3
    /\ args.caps[EqSymbolsWithData[1]] = CapOf(3)
    /\ args.caps[EqSymbolsWithData[2]] = CapRaises
    /\ ret.kind = "return"
    /\ ret.value[1].data = <<<<NRat(Rat(-3, 4))>>, <<NRat(Rat(-3, 4))>>>>
    /\ ReturnOf(1, 1) # ReturnOf(2, 1)

\* a call with every cap available: caps 1 and 3, weights 1/4 and 3/4
C19_MarketCapCase ==
    /\ EqDone /\ EqHasReturns /\ ~CapsUnavailable
    /\ EqNumWithData = 2 /\ EqNumObservations = 3
    /\ args.caps[EqSymbolsWithData[1]] = CapOf(1)
    /\ args.caps[EqSymbolsWithData[2]] = CapOf(3)
    /\ CapWeight(2) = Rat(3, 4)
    /\ ret.kind = "return"
    /\ ret.value[1].data[1][1] # ret.value[1].data[2][1]
    /\ ret.value[1].data[1][1] # OverallMeanReturn

\* Pi of the returned value is the uniform mean of the degraded mode
ReturnedDegradedPi ==
    /\ EqDone /\ ret.kind = "return"
    /\ CapsUnavailable

\* C20: whenever Pi is produced in the degraded uniform-mean mode, the
\* returned value carries a flag next to Pi, Sigma and the symbol list
\* that distinguishes it from a market-cap-based Pi.
C20_DegradedModeIsFlagged ==
    ReturnedDegradedPi => Len(ret.value) > 3

\* the symbols of the request that are missing from the download
EqDroppedSymbols ==
    {args.symbols[j] : j \in 1..Len(args.symbols)} \ SymbolsIn(EqSymbolsWithData)

\* C21: the call raises, and returns no statistics, exactly when no symbol
\* has valid data or fewer than 2 aligned price rows (so no return row)
\* remain; otherwise it returns Pi, Sigma and the symbols that have data,
\* the symbols with missing data dropped.
C21_FailsWithoutEnoughData ==
    EqDone =>
        /\ (EqNumWithData = 0 \/ EqNumObservations < 2) => ret = Raise("ValueError")
        /\ (EqNumWithData >= 1 /\ EqNumObservations >= 2) =>
              /\ ret.kind = "return"
              /\ ret.value[3] = EqSymbolsWithData
              /\ ret.value[2].shape = <<EqNumWithData, EqNumWithData>>

\* C21 witness: of two symbols one has no data and is dropped; the other has
\* at least 2 observations and the call returns statistics for it alone
C21_Witness ==
    /\ EqDone
    /\ Len(args.symbols) = 2
    /\ EqDroppedSymbols # {}
    /\ EqNumWithData = 1 /\ EqNumObservations >= 2
    /\ ret.kind = "return"
    /\ ret.value[3] = EqSymbolsWithData
    /\ ret.value[1].shape = <<1, 1>>

\* a call that fails for too few aligned rows though both symbols have data
C21_TooFewRowsCase ==
    /\ EqDone
    /\ EqNumWithData = 2 /\ EqNumObservations = 1
    /\ ret = Raise("ValueError")

(***************************************************************************)
(* SpecUsers: the user store of auth.py (users.json) under the requests    *)
(* /register, /login, /api/watchlist/add and /api/watchlist/remove of      *)
(* api.py.  The handlers are coroutines without an await, so each runs to  *)
(* its end before the next request is served; server.users is the content *)
(* of users.json, which does not exist when the server starts.  Users are  *)
(* never removed, so a user found by get_current_user_email is still       *)
(* stored when the handler runs.                                           *)
(***************************************************************************)
Emails == {"", "ann@x.org", "bob@x.org"}
Passwords == {"pw1", "pw2"}
WatchSymbols == {"AAPL", "MSFT"}
WatchNames == {"Apple"}

\* the user_email query parameter: absent (None) or given
QueryEmails == {<<>>} \cup {<<e>> : e \in Emails}

\* hashlib.sha256(password.encode()).hexdigest(): one digest per password
hash_password(password) == <<"sha256", password>>

\* raise HTTPException(status_code, detail)
HTTPException(status_code, detail) ==
    [kind |-> "raise", exc |-> "HTTPException",
     status_code |-> status_code, detail |-> detail]

\* any(user["email"] == email for user in users)
EmailStored(users, email) == \E i \in 1..Len(users) : users[i].email = email

\* the position of the first user with the email
FirstUserWith(users, email) ==
    CHOOSE i \in 1..Len(users) :
        /\ users[i].email = email
        /\ \A k \in 1..(i - 1) : users[k].email # email

\* mutant: registration without the check for an existing email
register_user_NoCheck(users, email, password) ==
    [result |-> [success |-> TRUE, message |-> "Registration successful"],
     users |-> Append(users, [email |-> email,
                              password |-> hash_password(password),
                              watchlist |-> <<>>])]

\* register_user: the result and the users.json it leaves
register_user(users, email, password) ==
    IF EmailStored(users, email)
    THEN [result |-> [success |-> FALSE, message |-> "User already exists"],
          users |-> users]
    ELSE [result |-> [success |-> TRUE, message |-> "Registration successful"],
          users |-> Append(users, [email |-> email,
                                   password |-> hash_password(password),
                                   watchlist |-> <<>>])]

\* login_user
login_user(users, email, password) ==
    IF \E i \in 1..Len(users) :
           users[i].email = email /\ users[i].password = hash_password(password)
    THEN [success |-> TRUE, message |-> "Login successful"]
    ELSE [success |-> FALSE, message |-> "Invalid credentials"]

\* get_current_user_email: the email of the query if it is not empty and a
\* stored user has it, else None (<<>>).  The dependency is a plain def,
\* run in a worker thread: load_users can read users.json while a handler
\* rewrites it, fail to decode it and see no user (torn).
get_current_user_email(users, user_email, torn) ==
    IF user_email # <<>> /\ user_email[1] # ""
       /\ ~torn /\ EmailStored(users, user_email[1])
    THEN user_email
    ELSE <<>>

\* any(item["symbol"] == symbol for item in user["watchlist"])
InWatchlist(watchlist, symbol) ==
    \E k \in 1..Len(watchlist) : watchlist[k].symbol = symbol

\* mutant: a watchlist that takes a symbol it already holds
add_to_watchlist_NoCheck(users, current_user_email, symbol, name) ==
    IF current_user_email = <<>>
    THEN [response |-> HTTPException(401, "Authentication required."),
          users |-> users]
    ELSE LET i == FirstUserWith(users, current_user_email[1])
         IN  [response |-> Return([success |-> TRUE, message |-> "added"]),
              users |-> [users EXCEPT ![i].watchlist =
                            Append(@, [symbol |-> symbol, name |-> name])]]

\* add_to_watchlist, after the dependency: the response and users.json
add_to_watchlist(users, current_user_email, symbol, name) ==
    IF current_user_email = <<>>
    THEN [response |-> HTTPException(401, "Authentication required."),
          users |-> users]
    ELSE IF ~EmailStored(users, current_user_email[1])
    THEN [response |-> HTTPException(404, "User not found for watchlist operation."),
          users |-> users]
    ELSE LET i == FirstUserWith(users, current_user_email[1])
         IN  IF InWatchlist(users[i].watchlist, symbol)
             THEN [response |-> HTTPException(400, "Stock is already in watchlist."),
                   users |-> users]
             ELSE [response |-> Return([success |-> TRUE, message |-> "added"]),
                   users |-> [users EXCEPT ![i].watchlist =
                                 Append(@, [symbol |-> symbol, name |-> name])]]

\* remove_from_watchlist, after the dependency
remove_from_watchlist(users, current_user_email, symbol) ==
    IF current_user_email = <<>>
    THEN [response |-> HTTPException(401, "Authentication required."),
          users |-> users]
    ELSE IF ~EmailStored(users, current_user_email[1])
    THEN [response |-> HTTPException(404, "User not found for watchlist operation."),
          users |-> users]
    ELSE LET i == FirstUserWith(users, current_user_email[1])
             kept == SelectSeq(users[i].watchlist,
                               LAMBDA item : item.symbol # symbol)
         IN  IF Len(kept) = Len(users[i].watchlist)
             THEN [response |-> HTTPException(404, "not found in watchlist."),
                   users |-> users]
             ELSE [response |-> Return([success |-> TRUE, message |-> "removed"]),
                   users |-> [users EXCEPT ![i].watchlist = kept]]

InitUsers ==
    /\ pc = "idle"
    /\ args = [fn |-> "start"]
    /\ ret = NoResult
    /\ frame = NoFrame
    /\ server = [users |-> <<>>]

\* POST /register
Register ==
    /\ pc = "idle"
    /\ "users" \in DOMAIN server
    /\ \E email \in Emails, password \in Passwords :
         LET out == register_user(server.users, email, password)
         IN  /\ args' = [fn |-> "register", email |-> email, password |-> password]
             /\ frame' = [at |-> "register", result |-> out.result]
             /\ ret' = IF out.result.success THEN Return(out.result)
                       ELSE HTTPException(400, out.result.message)
             /\ server' = [users |-> out.users]
    /\ UNCHANGED pc

\* POST /login
Login ==
    /\ pc = "idle"
    /\ "users" \in DOMAIN server
    /\ \E email \in Emails, password \in Passwords :
         LET result == login_user(server.users, email, password)
         IN  /\ args' = [fn |-> "login", email |-> email, password |-> password]
             /\ frame' = [at |-> "login", result |-> result]
             /\ ret' = IF result.success THEN Return(result)
                       ELSE HTTPException(401, result.message)
    /\ UNCHANGED <<pc, server>>

\* POST /api/watchlist/add
AddToWatchlist ==
    /\ pc = "idle"
    /\ "users" \in DOMAIN server
    /\ \E user_email \in QueryEmails, symbol \in WatchSymbols,
          name \in WatchNames, torn \in BOOLEAN :
         LET current == get_current_user_email(server.users, user_email, torn)
             out == add_to_watchlist(server.users, current, symbol, name)
         IN  /\ args' = [fn |-> "add_to_watchlist", user_email |-> user_email,
                         symbol |-> symbol, name |-> name]
             /\ frame' = [at |-> "add_to_watchlist", current_user_email |-> current]
             /\ ret' = out.response
             /\ server' = [users |-> out.users]
    /\ UNCHANGED pc

\* POST /api/watchlist/remove
RemoveFromWatchlist ==
    /\ pc = "idle"
    /\ "users" \in DOMAIN server
    /\ \E user_email \in QueryEmails, symbol \in WatchSymbols, torn \in BOOLEAN :
         LET current == get_current_user_email(server.users, user_email, torn)
             out == remove_from_watchlist(server.users, current, symbol)
         IN  /\ args' = [fn |-> "remove_from_watchlist", user_email |-> user_email,
                         symbol |-> symbol]
             /\ frame' = [at |-> "remove_from_watchlist",
                          current_user_email |-> current]
             /\ ret' = out.response
             /\ server' = [users |-> out.users]
    /\ UNCHANGED pc

NextUsers ==
    \/ Register
    \/ Login
    \/ AddToWatchlist
    \/ RemoveFromWatchlist

SpecUsers == InitUsers /\ [][NextUsers]_vars

(***************************************************************************)
(* Claims about the user store, checked under SpecUsers.                   *)
(***************************************************************************)
StoredUsers == server.users

\* no two stored users share an email
UniqueEmails ==
    \A i, k \in 1..Len(StoredUsers) :
        StoredUsers[i].email = StoredUsers[k].email => i = k

\* a stored user has the email and the SHA-256 digest of the password
CredentialsStored(email, password) ==
    \E i \in 1..Len(StoredUsers) :
        /\ StoredUsers[i].email = email
        /\ StoredUsers[i].password = <<"sha256", password>>

\* a step that serves a registration: an existing email gives success=False
\* and leaves the store as it was; a new one is appended with an empty
\* watchlist
C29_RegisterStep ==
    args'.fn = "register" =>
        IF \E i \in 1..Len(StoredUsers) : StoredUsers[i].email = args'.email
        THEN /\ frame'.result.success = FALSE
             /\ server' = server
        ELSE /\ frame'.result.success = TRUE
             /\ Len(server'.users) = Len(StoredUsers) + 1
             /\ SubSeq(server'.users, 1, Len(StoredUsers)) = StoredUsers
             /\ server'.users[Len(server'.users)].email = args'.email
             /\ server'.users[Len(server'.users)].watchlist = <<>>

\* a step that serves a login: it succeeds exactly for stored credentials
\* and leaves the store as it was
C29_LoginStep ==
    args'.fn = "login" =>
        /\ frame'.result.success = CredentialsStored(args'.email, args'.password)
        /\ server' = server

\* C29: after any sequence of registrations and logins (and watchlist
\* requests) no two stored users share an email; registering an existing
\* email returns success=False and leaves the store unchanged; login
\* succeeds if and only if a stored user has the email and the SHA-256 hash
\* of the given password; login never modifies the store.
C29_EmailsUniqueLoginByHash ==
    /\ [](UniqueEmails)
    /\ [][C29_RegisterStep /\ C29_LoginStep]_vars

\* C29 witness: with two users stored, a registration of a stored email
\* under another password has just been refused
C29_Witness ==
    /\ args.fn = "register"
    /\ Len(StoredUsers) = 2
    /\ frame.result.success = FALSE
    /\ \E i \in 1..2 : /\ StoredUsers[i].email = args.email
                       /\ StoredUsers[i].password # <<"sha256", args.password>>
    /\ ret.kind = "raise" /\ ret.status_code = 400

\* a login that succeeded, and one refused for the password of another user
C29_LoginAccepted ==
    /\ args.fn = "login" /\ frame.result.success
    /\ Len(StoredUsers) = 2

C29_LoginRefused ==
    /\ args.fn = "login" /\ ~frame.result.success
    /\ Len(StoredUsers) = 2
    /\ \E i, k \in 1..2 : /\ i # k
                          /\ StoredUsers[i].email = args.email
                          /\ StoredUsers[k].password = <<"sha256", args.password>>
                          /\ StoredUsers[i].password # StoredUsers[k].password

\* the symbols of a watchlist, in order
SymbolsOfWatchlist(w) == [k \in 1..Len(w) |-> w[k].symbol]

\* no watchlist holds a symbol twice
NoSymbolTwice ==
    \A i \in 1..Len(StoredUsers) :
        \A k, l \in 1..Len(StoredUsers[i].watchlist) :
            StoredUsers[i].watchlist[k].symbol = StoredUsers[i].watchlist[l].symbol
                => k = l

\* the request being served names a stored user, and the dependency found it
IsWatchlistRequest(fn) == fn \in {"add_to_watchlist", "remove_from_watchlist"}
EmailKnown(q) ==
    q # <<>> /\ \E i \in 1..Len(StoredUsers) : StoredUsers[i].email = q[1]
WatchlistOf(users, email) ==
    users[CHOOSE i \in 1..Len(users) : users[i].email = email].watchlist

\* a step that serves a watchlist request
C30_WatchlistStep ==
    IsWatchlistRequest(args'.fn) =>
        /\ ~EmailKnown(args'.user_email) =>
              /\ ret'.kind = "raise" /\ ret'.status_code = 401
              /\ server' = server
        /\ frame'.current_user_email = <<>> =>
              /\ ret'.kind = "raise" /\ ret'.status_code = 401
              /\ server' = server
        /\ frame'.current_user_email # <<>> =>
              LET email == args'.user_email[1]
                  before == WatchlistOf(server.users, email)
                  present == \E k \in 1..Len(before) :
                                 before[k].symbol = args'.symbol
              IN  /\ EmailKnown(args'.user_email)
                  /\ (args'.fn = "add_to_watchlist" /\ present) =>
                        /\ ret'.kind = "raise" /\ ret'.status_code = 400
                        /\ server' = server
                  /\ (args'.fn = "remove_from_watchlist" /\ ~present) =>
                        /\ ret'.kind = "raise" /\ ret'.status_code = 404
                        /\ server' = server
                  /\ (args'.fn = "add_to_watchlist" /\ ~present) =>
                        /\ ret'.kind = "return"
                        /\ SymbolsOfWatchlist(WatchlistOf(server'.users, email))
                               = Append(SymbolsOfWatchlist(before), args'.symbol)
                  /\ (args'.fn = "remove_from_watchlist" /\ present) =>
                        /\ ret'.kind = "return"
                        /\ SymbolsOfWatchlist(WatchlistOf(server'.users, email))
                               = SelectSeq(SymbolsOfWatchlist(before),
                                           LAMBDA sy : sy # args'.symbol)
                  /\ Len(server'.users) = Len(server.users)
                  /\ \A i \in 1..Len(server.users) :
                        /\ server'.users[i].email = server.users[i].email
                        /\ server'.users[i].password = server.users[i].password
                        /\ server.users[i].email # email =>
                              server'.users[i] = server.users[i]

\* C30: after any sequence of watchlist add/remove requests no watchlist
\* holds a symbol twice; for a request whose user is recognised, adding a
\* symbol already present is rejected (400) and removing a symbol not
\* present is rejected (404), each leaving the stored users unchanged; a
\* request without a known user email is rejected (401) and changes
\* nothing; a successful operation changes only the requesting user's
\* watchlist.
C30_WatchlistsHaveNoDuplicates ==
    /\ [](NoSymbolTwice)
    /\ [][C30_WatchlistStep]_vars

\* C30 witness: the second of two users holds both symbols and has just
\* been refused a third addition, the first user's watchlist being empty
C30_Witness ==
    /\ args.fn = "add_to_watchlist"
    /\ Len(StoredUsers) = 2
    /\ args.user_email = <<StoredUsers[2].email>>
    /\ frame.current_user_email = args.user_email
    /\ Len(StoredUsers[2].watchlist) = 2
    /\ StoredUsers[1].watchlist = <<>>
    /\ ret.kind = "raise" /\ ret.status_code = 400

\* a removal refused for a symbol that is not in the watchlist, and one
\* refused for an email no user has
C30_RemovalRefused ==
    /\ args.fn = "remove_from_watchlist"
    /\ frame.current_user_email # <<>>
    /\ Len(WatchlistOf(StoredUsers, args.user_email[1])) = 1
    /\ ret.kind = "raise" /\ ret.status_code = 404

C30_UnknownUserRefused ==
    /\ IsWatchlistRequest(args.fn)
    /\ Len(StoredUsers) = 1
    /\ args.user_email # <<>> /\ args.user_email[1] # ""
    /\ ~EmailKnown(args.user_email)
    /\ ret.kind = "raise" /\ ret.status_code = 401

(***************************************************************************)
(* The two multi-step calls as functions of their inputs, for the request  *)
(* handlers of api.py that call them.                                      *)
(***************************************************************************)
\* lines 126-141: Pi from the market caps when every symbol has one, else
\* the mean of the mean returns for every symbol
EquilibriumOfCov(syms, returns, cov, caps, risk_aversion) ==
    IF \A j \in 1..Len(syms) : CapIsTruthy(caps[syms[j]])
    THEN Return(<<MarketImpliedReturns(risk_aversion, cov,
                      [j \in 1..Len(syms) |-> caps[syms[j]].value]),
                  cov, syms>>)
    ELSE Return(<<UniformImpliedReturns(returns), cov, syms>>)

\* lines 85-104: fewer than two aligned rows, or no return, is a ValueError
EquilibriumOfReturns(syms, returns, caps, risk_aversion) ==
    IF Len(returns[1]) = 0 THEN Raise("ValueError")
    ELSE EquilibriumOfCov(syms, returns, CovarianceOfReturns(returns), caps,
                          risk_aversion)

\* get_implied_equilibrium_returns_and_cov: the whole call
get_implied_equilibrium_returns_and_cov(symbols, data, caps, risk_aversion) ==
    IF Len(SuccessfulSymbols(symbols, data)) = 0 THEN Raise("ValueError")
    ELSE EquilibriumOfReturns(SuccessfulSymbols(symbols, data),
             [j \in 1..Len(SuccessfulSymbols(symbols, data)) |->
                LogReturns(AlignedPrices(SuccessfulSymbols(symbols, data), data, j))],
             caps, risk_aversion)

\* the call agrees with its steps
EquilibriumCallAgrees ==
    (pc = "done" /\ InEquilibrium) =>
        ret = get_implied_equilibrium_returns_and_cov(args.symbols, args.data,
                  args.caps, args.risk_aversion)

\* lines 96-164: the simulation on a Cholesky factor L
PathsFromFactor(syms, data, cov_matrix, L, time_intervals, iteration, pattern) ==
    IF time_intervals = 0 THEN Raise("IndexError")
    ELSE Return(SimulatedPaths(syms, S0Vector(syms, data),
                    DriftVector(MeanLogReturns(syms, data), cov_matrix),
                    RandomTerm(CorrelatedShocks(L,
                                   Draws(pattern, Len(syms), iteration, time_intervals - 1),
                                   Len(syms), iteration, time_intervals - 1),
                               cov_matrix, Len(syms), iteration, time_intervals - 1),
                    time_intervals, iteration))

\* lines 68-94: the symbols with data, the rows test, the shape test, the
\* decomposition with its one retry
PathsForSymbols(syms, data, cov_matrix, time_intervals, iteration, pattern) ==
    IF Len(syms) = 0 THEN Return(NoPaths)
    ELSE IF Len(AlignedDates(syms, data)) < 2
    THEN Return(ZeroFilledPaths(syms, time_intervals, iteration))
    ELSE IF cov_matrix.shape # <<Len(syms), Len(syms)>> THEN Raise("ValueError")
    ELSE IF ~CholeskyFails(cov_matrix)
    THEN PathsFromFactor(syms, data, cov_matrix, CholeskyFactor(cov_matrix),
                         time_intervals, iteration, pattern)
    ELSE IF CholeskyFails(Jittered(cov_matrix))
    THEN Return(ZeroFilledPaths(syms, time_intervals, iteration))
    ELSE PathsFromFactor(syms, data, cov_matrix,
                         CholeskyFactor(Jittered(cov_matrix)),
                         time_intervals, iteration, pattern)

\* get_MonteCarloPaths_CorrelatedMultiAsset: the whole call, for the draws
\* of a pattern
get_MonteCarloPaths_CorrelatedMultiAsset(symbols, data, cov_matrix, time_intervals, iteration, pattern) ==
    IF Len(symbols) = 0 THEN Return(NoPaths)
    ELSE PathsForSymbols(SuccessfulSymbols(symbols, data), data, cov_matrix,
                         time_intervals, iteration, pattern)

MonteCarloCallAgrees ==
    (pc = "done" /\ InMonteCarlo) =>
        \E pattern \in DrawPatterns :
            ret = get_MonteCarloPaths_CorrelatedMultiAsset(args.symbols,
                      args.data, args.cov_matrix, args.time_intervals,
                      args.iteration, pattern)

(***************************************************************************)
(* api.py: initialize_portfolio_data and simulate_portfolio.               *)
(* server holds the two module globals: cached_portfolio_data and          *)
(* LAST_REQUEST_PARAMS, a dict being a record and the empty dict <<>>.     *)
(* A request is handled without an await, so no other request is served    *)
(* while pc is not "idle".  What the handler gets from outside (the two    *)
(* downloads of the price history, the market caps, the news, the quotes,  *)
(* the normal draws) is chosen when the handler reaches the call.          *)
(***************************************************************************)
EmptyDict == <<>>

\* not d, for a dict d
IsEmptyDict(d) == DOMAIN d = {}

\* None
PyNone == [type |-> "NoneType"]

\* StockSelectionRequest: the symbol lists and the tauBL of the requests,
\* with two steps and one run
RequestChoices ==
    {<<<<"AAPL">>, Rat(1, 20)>>, <<<<"AAPL", "MSFT">>, Rat(1, 20)>>,
     <<<<"AAPL", "MSFT">>, Rat(1, 40)>>}

StockSelectionRequests ==
    {[symbols |-> c[1], historicalPeriod |-> "10y", numTimeIntervals |-> 2,
      numSimulations |-> 1, riskAversionBL |-> Rat(5, 2), tauBL |-> c[2],
      riskAversionOpt |-> RInt(3)] : c \in RequestChoices}

\* hash(json.dumps(request.dict(), sort_keys=True)): different parameters
\* are taken to have different hashes
ParamsHash(params) == <<"hash", params>>

\* the history a download returns: every symbol with four dates and a
\* regular covariance ("full"), the second symbol at a constant price
\* ("flat"), only the first symbol ("partial"), one date for every symbol
\* ("short"), only the first symbol with one date ("stub"), nothing ("none")
DownloadKinds == {"full", "flat", "partial", "short"}

ServerExponents(sym, kind) ==
    CASE kind \in {"short", "stub"} -> <<0>>
      [] kind = "flat" /\ sym = "MSFT" -> <<1, 1, 1, 1>>
      [] sym = "MSFT" -> <<0, 2, 3, 3>>
      [] OTHER -> <<0, 0, 2, 3>>

ServerDownload(symbols, kind) ==
    [sym \in {s \in SymbolsIn(symbols) :
                 kind # "none" /\ (kind \in {"partial", "stub"} => s = "AAPL")} |->
        [d \in 1..Len(ServerExponents(sym, kind)) |->
            Price(ROne, NRat(RInt(ServerExponents(sym, kind)[d])))]]

\* yf.Ticker(sym).info.get('marketCap') of every symbol: caps 1 and 3, or
\* None for the second symbol
CapKinds == {"caps", "nocap"}

\* what the first download and the market caps are in a request
MarketScenarios ==
    {<<"full", "caps">>, <<"full", "nocap">>, <<"flat", "caps">>,
     <<"partial", "caps">>, <<"short", "caps">>}

ServerCaps(kind) ==
    [sym \in {"AAPL", "MSFT"} |->
        IF sym = "AAPL" THEN CapOf(1)
        ELSE IF kind = "caps" THEN CapOf(3) ELSE NoCap]

\* the news: the fetch fails for every symbol ("down"), the same headline
\* score for every symbol ("calm"), scores 0.8 apart ("split")
NewsKinds == {"down", "calm", "split"}

\* _get_finnhub_data("company-news", ...) of one symbol, by the scores of its
\* headlines
get_finnhub_data(sym, kind) ==
    CASE kind = "down" -> HTTPException(503, "news")
      [] kind = "calm" -> Return(<<Rat(1, 2)>>)
      [] OTHER -> Return(IF sym = "AAPL" THEN <<Rat(1, 2)>> ELSE <<Rat(-3, 10)>>)

\* the loop of lines 684-697: the headlines of a symbol whose fetch raises
\* are []
AllHeadlines(actual_symbols, kind) ==
    [sym \in SymbolsIn(actual_symbols) |->
        IF get_finnhub_data(sym, kind).kind = "raise" THEN <<>>
        ELSE get_finnhub_data(sym, kind).value]

\* an array of numbers without a square root part, entry by entry
RationalEntries(a) ==
    IF Ndim(a) = 1 THEN Arr1(a.shape[1], [i \in 1..a.shape[1] |-> a.data[i].q])
    ELSE Arr2(a.shape[1], a.shape[2],
              [i \in 1..a.shape[1], j \in 1..a.shape[2] |-> a.data[i][j].q])

\* round(x, 4) of a float x: to the nearest multiple of 1e-4, ties to even
Round4(x) ==
    LET p == x[1] * 10000
        lo == p \div x[2]
        rem == p - lo * x[2]
    IN  IF 2 * rem > x[2] \/ (2 * rem = x[2] /\ lo % 2 = 1)
        THEN Rat(lo + 1, 10000) ELSE Rat(lo, 10000)

\* the locals f of a handler with the locals new assigned
WithLocals(f, new) ==
    [x \in DOMAIN f \cup DOMAIN new |-> IF x \in DOMAIN new THEN new[x] ELSE f[x]]

\* {sym: round(float(bl_optimal_weights_np[i, 0]), 4) for i, sym in
\* enumerate(actual_symbols_processed)}
RoundedWeights(symbols, w) ==
    [keys |-> symbols,
     values |-> [sym \in SymbolsIn(symbols) |->
                   Round4(w.data[CHOOSE i \in 1..Len(symbols) : symbols[i] = sym][1])]]

\* mutant: the parameters replaced, the cache kept
RememberParams_KeepCache(srv, params) ==
    IF IsEmptyDict(srv.LAST_REQUEST_PARAMS) \/ srv.LAST_REQUEST_PARAMS.hash # ParamsHash(params)
    THEN [srv EXCEPT !.LAST_REQUEST_PARAMS = [hash |-> ParamsHash(params), params |-> params]]
    ELSE srv

\* lines 659-665: a request whose hash is not the stored one replaces the
\* stored parameters and clears the cache
RememberParams(srv, params) ==
    IF IsEmptyDict(srv.LAST_REQUEST_PARAMS) \/ srv.LAST_REQUEST_PARAMS.hash # ParamsHash(params)
    THEN [srv EXCEPT !.LAST_REQUEST_PARAMS = [hash |-> ParamsHash(params), params |-> params],
                     !.cached_portfolio_data = EmptyDict]
    ELSE srv

InitServer ==
    /\ pc = "idle"
    /\ args = [fn |-> "start"]
    /\ ret = NoResult
    /\ frame = NoFrame
    /\ server = [cached_portfolio_data |-> EmptyDict,
                 LAST_REQUEST_PARAMS |-> EmptyDict]

IsPipelineServer == "cached_portfolio_data" \in DOMAIN server

\* lines 659-667: the hash test.  With a populated cache and an unchanged
\* hash the handler runs off its end and returns None; with an empty cache
\* it goes on to the pipeline.
InitializeBegin ==
    /\ pc = "idle"
    /\ IsPipelineServer
    /\ \E request \in StockSelectionRequests :
        /\ args' = [fn |-> "initialize_portfolio_data", request |-> request]
        /\ server' = RememberParams(server, request)
        /\ IF ~IsEmptyDict(RememberParams(server, request).cached_portfolio_data)
           THEN /\ pc' = "idle"
                /\ frame' = [at |-> "end"]
                /\ ret' = Return(PyNone)
           ELSE /\ pc' = "equilibrium"
                /\ frame' = [at |-> "begin"]
                /\ ret' = NoResult

\* lines 669-679: the call of get_implied_equilibrium_returns_and_cov,
\* whose ValueError line 783 turns into a 400
InitializeEquilibrium ==
    /\ pc = "equilibrium"
    /\ \E market \in MarketScenarios :
        \E eq \in {get_implied_equilibrium_returns_and_cov(args.request.symbols,
                        ServerDownload(args.request.symbols, market[1]),
                        ServerCaps(market[2]), args.request.riskAversionBL)} :
          IF eq.kind = "raise"
          THEN /\ pc' = "idle"
               /\ frame' = [at |-> "equilibrium", download |-> market[1],
                            caps |-> market[2]]
               /\ ret' = HTTPException(400, eq.exc)
          ELSE IF Len(eq.value[3]) = 0
          THEN /\ pc' = "idle"
               /\ frame' = [at |-> "equilibrium", download |-> market[1],
                            caps |-> market[2]]
               /\ ret' = HTTPException(400, "No valid stock data")
          ELSE /\ pc' = "views"
               /\ frame' = [at |-> "equilibrium", download |-> market[1],
                            caps |-> market[2],
                            implied_eq_returns_daily |-> RationalEntries(eq.value[1]),
                            cov_matrix_daily_np |-> RationalEntries(eq.value[2]),
                            actual_symbols_processed |-> eq.value[3]]
               /\ ret' = NoResult
    /\ UNCHANGED <<args, server>>

\* lines 681-720: the news of every symbol, the views, the posterior
\* returns, the optimal weights.  An exception of the two blender calls
\* reaches the except Exception of line 788.  Scores 0.8 apart are taken
\* with a singular Sigma only.
InitializeViews ==
    /\ pc = "views"
    /\ \E news \in NewsKinds :
        /\ news = "split" => Singular(frame.cov_matrix_daily_np)
        /\ \E headlines \in {AllHeadlines(frame.actual_symbols_processed, news)} :
           \E views \in {get_sentiment_based_views(frame.actual_symbols_processed,
                              frame.cov_matrix_daily_np, headlines).value} :
           \E seen \in {WithLocals(frame, [at |-> "views", news |-> news,
                              all_headlines_dict |-> headlines,
                              P_matrix |-> views.P, Q_vector |-> views.Q,
                              Omega_matrix |-> views.Omega])} :
           \E posterior \in {calculate_posterior_returns(frame.implied_eq_returns_daily,
                                  frame.cov_matrix_daily_np, views.P, views.Q,
                                  views.Omega, args.request.tauBL)} :
             IF posterior.kind = "raise"
             THEN /\ pc' = "idle"
                  /\ frame' = seen
                  /\ ret' = HTTPException(500, posterior.exc)
             ELSE \E weights \in {calculate_optimal_weights(posterior.value,
                                      frame.cov_matrix_daily_np,
                                      args.request.riskAversionOpt)} :
                  IF weights.kind = "raise"
                  THEN /\ pc' = "idle"
                       /\ frame' = WithLocals(seen, [posterior_returns_np |-> posterior.value])
                       /\ ret' = HTTPException(500, weights.exc)
                  ELSE /\ pc' = "paths"
                       /\ frame' = WithLocals(seen,
                             [posterior_returns_np |-> posterior.value,
                              bl_optimal_weights_np |-> weights.value,
                              bl_optimal_weights |->
                                  RoundedWeights(frame.actual_symbols_processed,
                                                 weights.value)])
                       /\ ret' = NoResult
    /\ UNCHANGED <<args, server>>

\* the draws of the simulator in a request
ServerDrawPatterns == {"zero", "asset"}

\* what the simulator's own download returns: what the first download
\* returned, the first symbol with one date, or nothing
SecondDownloads(first) == {first, "stub", "none"}

\* lines 723-733: the call of the simulator, which downloads the history
\* again; an empty dict of paths is refused
InitializePaths ==
    /\ pc = "paths"
    /\ \E download \in SecondDownloads(frame.download), pattern \in ServerDrawPatterns :
        \E mc \in {get_MonteCarloPaths_CorrelatedMultiAsset(
                        frame.actual_symbols_processed,
                        ServerDownload(frame.actual_symbols_processed, download),
                        frame.cov_matrix_daily_np, args.request.numTimeIntervals,
                        args.request.numSimulations, pattern)} :
        \E seen \in {WithLocals(frame, [at |-> "paths", second_download |-> download])} :
          IF mc.kind = "raise"
          THEN /\ pc' = "idle"
               /\ frame' = seen
               /\ ret' = HTTPException(IF mc.exc = "ValueError" THEN 400 ELSE 500, mc.exc)
          ELSE IF Len(mc.value.keys) = 0
          THEN /\ pc' = "idle"
               /\ frame' = seen
               /\ ret' = HTTPException(400, "Monte Carlo simulation failed")
          ELSE /\ pc' = "finish"
               /\ frame' = WithLocals(seen, [all_simulated_asset_paths_dict |-> mc.value])
               /\ ret' = NoResult
    /\ UNCHANGED <<args, server>>

\* the 1-day downloads of lines 737-752 return a quote or fail
QuoteKinds == {"quoted", "unquoted"}

\* the last close of the 1-day download of a symbol
QuoteOf(sym) == Price(ROne, NRat(RInt(ServerExponents(sym, "full")[4])))

\* all_simulated_asset_paths_dict.get(sym, np.array([[0.0]]))[0, 0]
StartPriceOr0(d, sym) ==
    IF sym \in DOMAIN d.paths THEN d.paths[sym].data[1][1] ELSE ZeroPrice

\* current_prices of lines 736-752
CurrentPrices(symbols, d, quotes) ==
    [keys |-> symbols,
     values |-> [sym \in SymbolsIn(symbols) |->
                   IF quotes = "quoted" THEN QuoteOf(sym) ELSE StartPriceOr0(d, sym)]]

\* np.median(paths, axis=1).tolist() of every array of the dict that has
\* rows and columns; the median of one run is the run, of two their mean
SamplePaths(d) ==
    LET shown == SelectSeq(d.keys, LAMBDA sym : d.paths[sym].shape[1] > 0
                                                /\ d.paths[sym].shape[2] > 0)
    IN  [keys |-> shown,
         values |-> [sym \in SymbolsIn(shown) |->
                       [t \in 1..d.paths[sym].shape[1] |-> d.paths[sym].data[t][1]]]]

\* lines 756-765: the ten entries of the cache, from the handler's locals
PopulatedCache(f, request) ==
    [symbols |-> f.actual_symbols_processed,
     cov_matrix |-> f.cov_matrix_daily_np,
     implied_returns |-> f.implied_eq_returns_daily,
     P_matrix |-> f.P_matrix,
     Q_vector |-> f.Q_vector,
     Omega_matrix |-> f.Omega_matrix,
     tauBL |-> request.tauBL,
     riskAversionOpt |-> request.riskAversionOpt,
     all_simulated_asset_paths |-> f.all_simulated_asset_paths_dict,
     optimal_weights_dict |-> f.bl_optimal_weights]

\* lines 776-781
InitializeDataResponse(symbols, currentPrices, optimalWeights, sampleIndividualPaths) ==
    [type |-> "InitializeDataResponse", symbols |-> symbols,
     currentPrices |-> currentPrices, optimalWeights |-> optimalWeights,
     sampleIndividualPaths |-> sampleIndividualPaths]

\* lines 736-781: the current prices, the population of the cache, the
\* response
InitializeFinish ==
    /\ pc = "finish"
    /\ \E quotes \in QuoteKinds :
        \E current_prices \in {CurrentPrices(frame.actual_symbols_processed,
                                    frame.all_simulated_asset_paths_dict, quotes)} :
          /\ frame' = WithLocals(frame, [at |-> "finish", quotes |-> quotes,
                                         current_prices |-> current_prices])
          /\ server' = [server EXCEPT
                          !.cached_portfolio_data = PopulatedCache(frame, args.request)]
          /\ ret' = Return(InitializeDataResponse(frame.actual_symbols_processed,
                               current_prices, frame.bl_optimal_weights,
                               SamplePaths(frame.all_simulated_asset_paths_dict)))
    /\ pc' = "idle"
    /\ UNCHANGED args

\* UserWeightsRequest: symbol lists and weight dicts of the requests
UserSymbolLists == {<<"AAPL">>, <<"MSFT", "AAPL">>}

UserWeightDicts ==
    {[sym \in {"AAPL"} |-> ROne],
     [sym \in {"AAPL", "MSFT"} |-> IF sym = "AAPL" THEN Rat(1, 4) ELSE Rat(3, 4)]}

UserWeightsRequests ==
    {[symbols |-> s, weights |-> w, initialPortfolioValue |-> RInt(100),
      numTimeIntervals |-> 2] : s \in UserSymbolLists, w \in UserWeightDicts}

\* np.array([request.weights.get(sym, 0.0) for sym in
\* actual_symbols_processed]).reshape(-1, 1)
UserWeightsColumn(weights, symbols) ==
    Arr2(Len(symbols), 1, [i \in 1..Len(symbols), j \in 1..1 |->
        IF symbols[i] \in DOMAIN weights THEN weights[symbols[i]] ELSE RZero])

\* num_shares[j] * simulated_asset_paths[sym][t, i] for a simulated price:
\* allocation / initial price * price, and 0 for a zero initial price
HoldingOnPath(v, w, p0, p) ==
    IF p0.coef = RZero THEN ZeroPrice
    ELSE Price(RDiv(RMul(RMul(v, w), p.coef), p0.coef), NSub(p.expo, p0.expo))

\* simulate_portfolio_value on the simulated prices: the value at a step
\* t > 0 of a run is the sum of the holdings, kept as the sequence of its
\* terms
PortfolioOnPaths(v, optimal_weights, d) ==
    LET first == d.paths[d.keys[1]]
        w == Flatten(optimal_weights)
    IN  IF Len(d.keys) = 0 THEN Return(Arr1(0, <<>>))
        ELSE IF optimal_weights.shape[1] # Len(d.keys) THEN Raise("ValueError")
        ELSE Return(Arr2(first.shape[1], first.shape[2],
                 [t \in 1..first.shape[1], i \in 1..first.shape[2] |->
                    IF t = 1 THEN <<Price(v, NZero)>>
                    ELSE [j \in 1..Len(d.keys) |->
                            HoldingOnPath(v, w[j], InitialPrices(d)[j],
                                          d.paths[d.keys[j]].data[t][i])]]))

\* lines 866-878, without the statistics of lines 820-865: the mean over
\* the runs is the run itself when there is one run
SimulatePortfolioResponse(values, optimalWeights) ==
    [type |-> "SimulatePortfolioResponse",
     simulatedPortfolioValues |-> [t \in 1..values.shape[1] |-> values.data[t][1]],
     simulatedPortfolioFinalValues |-> values.data[values.shape[1]],
     optimalWeights |-> optimalWeights]

\* set(request.symbols) != set(actual_symbols_processed), negated
SymbolsMatch(request_symbols, cached_symbols) ==
    SymbolsIn(request_symbols) = SymbolsIn(cached_symbols)

\* mutant: a request on an empty cache answered from the stored parameters
simulate_portfolio_NoCacheTest(srv, request) ==
    IF IsEmptyDict(srv.cached_portfolio_data)
    THEN [response |-> Return(PyNone),
          server |-> [srv EXCEPT !.LAST_REQUEST_PARAMS = EmptyDict]]
    ELSE [response |-> HTTPException(400, "Symbols in request do not match"),
          server |-> srv]

\* mutant: the cached weights replaced by the weights of the request
simulate_portfolio_StoresWeights(srv, request) ==
    IF IsEmptyDict(srv.cached_portfolio_data)
    THEN [response |-> HTTPException(400, "Portfolio data not initialized"),
          server |-> srv]
    ELSE [response |-> HTTPException(400, "Symbols in request do not match"),
          server |-> [srv EXCEPT !.cached_portfolio_data.optimal_weights_dict =
                                    request.weights]]

\* lines 812-885: a ValueError of simulate_portfolio_value is a 400, the
\* index error on its empty array a 500, its values the response
SimulateAnswer(values, optimal_weights_dict) ==
    IF values.kind = "raise" THEN HTTPException(400, values.exc)
    ELSE IF Ndim(values.value) = 1 THEN HTTPException(500, "IndexError")
    ELSE Return(SimulatePortfolioResponse(values.value, optimal_weights_dict))

\* simulate_portfolio: the response or the HTTPException, and the globals
\* after the request
simulate_portfolio(srv, request) ==
    [response |->
        IF IsEmptyDict(srv.cached_portfolio_data)
        THEN HTTPException(400, "Portfolio data not initialized")
        ELSE IF ~SymbolsMatch(request.symbols, srv.cached_portfolio_data.symbols)
        THEN HTTPException(400, "Symbols in request do not match")
        ELSE SimulateAnswer(
                 PortfolioOnPaths(request.initialPortfolioValue,
                     UserWeightsColumn(request.weights,
                                       srv.cached_portfolio_data.symbols),
                     srv.cached_portfolio_data.all_simulated_asset_paths),
                 srv.cached_portfolio_data.optimal_weights_dict),
     server |-> srv]

Simulate ==
    /\ pc = "idle"
    /\ IsPipelineServer
    /\ \E request \in UserWeightsRequests :
        \E answer \in {simulate_portfolio(server, request)} :
          /\ args' = [fn |-> "simulate_portfolio", request |-> request]
          /\ frame' = [at |-> "simulate"]
          /\ ret' = answer.response
          /\ server' = answer.server
    /\ pc' = "idle"

NextServer ==
    \/ InitializeBegin
    \/ InitializeEquilibrium
    \/ InitializeViews
    \/ InitializePaths
    \/ InitializeFinish
    \/ Simulate

SpecServer == InitServer /\ [][NextServer]_vars

(***************************************************************************)
(* Properties of the two request handlers.                                 *)
(***************************************************************************)
Cache == server.cached_portfolio_data
LastParams == server.LAST_REQUEST_PARAMS

\* an initialize-data request has been answered
InitializeDone ==
    /\ IsPipelineServer
    /\ pc = "idle"
    /\ args.fn = "initialize_portfolio_data"

\* a simulate request has been answered
SimulateDone ==
    /\ IsPipelineServer
    /\ pc = "idle"
    /\ args.fn = "simulate_portfolio"

\* the step that handles a simulate request
SimulateStep ==
    /\ IsPipelineServer
    /\ pc = "idle"
    /\ pc' = "idle"
    /\ args'.fn = "simulate_portfolio"

\* the request repeats the parameters of the initialization whose result is
\* in the cache
RepeatsCachedParams ==
    /\ ~IsEmptyDict(Cache)
    /\ LastParams.params = args.request

\* C25 (as claimed): every initialize-data request that raises no error
\* returns an InitializeDataResponse for the symbols it processed, a
\* request that repeats the parameters of the initialization in the cache
\* included.
C25_EveryAnswerIsAResponse ==
    (InitializeDone /\ ret.kind = "return") =>
        /\ ret.value.type = "InitializeDataResponse"
        /\ SymbolsIn(ret.value.symbols) \subseteq SymbolsIn(args.request.symbols)
        /\ ret.value.optimalWeights.keys = ret.value.symbols
        /\ ret.value.currentPrices.keys = ret.value.symbols

\* the repeated request is answered with None
C25_RepeatedRequestReturnsNone ==
    /\ InitializeDone
    /\ RepeatsCachedParams
    /\ ret = Return(PyNone)

\* the ten entries of a populated cache
CacheEntries ==
    {"symbols", "cov_matrix", "implied_returns", "P_matrix", "Q_vector",
     "Omega_matrix", "tauBL", "riskAversionOpt", "all_simulated_asset_paths",
     "optimal_weights_dict"}

\* the cache is empty, or complete and of the stored parameters
CacheEmptyOrComplete ==
    IsPipelineServer =>
        \/ IsEmptyDict(Cache)
        \/ /\ DOMAIN Cache = CacheEntries
           /\ ~IsEmptyDict(LastParams)
           /\ LastParams.hash = ParamsHash(LastParams.params)
           /\ Cache.tauBL = LastParams.params.tauBL
           /\ Cache.riskAversionOpt = LastParams.params.riskAversionOpt
           /\ SymbolsIn(Cache.symbols) \subseteq SymbolsIn(LastParams.params.symbols)

\* an initialization that ended in an error left the cache empty
FailedInitializationLeavesEmpty ==
    (InitializeDone /\ ret.kind = "raise") => IsEmptyDict(Cache)

\* the cache changes only to empty or, in the last step of an
\* initialization whose hash is the stored one, to the result of that
\* initialization; the stored parameters change only with the cache emptied
C26_CacheStep ==
    IsPipelineServer =>
        /\ server'.cached_portfolio_data # Cache =>
             \/ IsEmptyDict(server'.cached_portfolio_data)
             \/ /\ pc = "finish"
                /\ ret'.kind = "return"
                /\ server'.LAST_REQUEST_PARAMS.hash = ParamsHash(args.request)
                /\ DOMAIN server'.cached_portfolio_data = CacheEntries
                /\ server'.cached_portfolio_data.symbols = frame.actual_symbols_processed
                /\ server'.cached_portfolio_data.cov_matrix = frame.cov_matrix_daily_np
                /\ server'.cached_portfolio_data.implied_returns = frame.implied_eq_returns_daily
                /\ server'.cached_portfolio_data.P_matrix = frame.P_matrix
                /\ server'.cached_portfolio_data.Q_vector = frame.Q_vector
                /\ server'.cached_portfolio_data.Omega_matrix = frame.Omega_matrix
                /\ server'.cached_portfolio_data.tauBL = args.request.tauBL
                /\ server'.cached_portfolio_data.riskAversionOpt = args.request.riskAversionOpt
                /\ server'.cached_portfolio_data.all_simulated_asset_paths
                     = frame.all_simulated_asset_paths_dict
                /\ server'.cached_portfolio_data.optimal_weights_dict
                     = ret'.value.optimalWeights
        /\ server'.LAST_REQUEST_PARAMS # LastParams =>
             /\ IsEmptyDict(server'.cached_portfolio_data)
             /\ server'.LAST_REQUEST_PARAMS.params = args'.request
             /\ args'.fn = "initialize_portfolio_data"

\* C26: at every time the cache is empty or holds the complete result of
\* one successful initialization whose parameter hash is the stored hash;
\* an initialization that fails or has new parameters leaves no data of
\* earlier parameters in the cache.
C26_CacheIsOfStoredParams ==
    /\ [](CacheEmptyOrComplete /\ FailedInitializationLeavesEmpty)
    /\ [][C26_CacheStep]_vars

\* an initialization with parameters other than the first ones has
\* populated the cache
C26_Witness ==
    /\ InitializeDone
    /\ frame.at = "finish"
    /\ ~IsEmptyDict(Cache)
    /\ LastParams.params = args.request
    /\ Cache.tauBL = Rat(1, 40)

\* a failed initialization with new parameters after a successful one
C26_FailedAfterSuccess ==
    /\ InitializeDone
    /\ ret.kind = "raise"
    /\ IsEmptyDict(Cache)
    /\ LastParams.params = args.request

\* the answer to a request refused with the status code 400
Refused400(r) ==
    /\ r.kind = "raise"
    /\ r.exc = "HTTPException"
    /\ r.status_code = 400

\* a simulate request on an empty cache is refused as not initialized and
\* changes no state; one whose symbol set is not the cached one is refused
C27_SimulateStep ==
    SimulateStep =>
        /\ IsEmptyDict(Cache) =>
             /\ Refused400(ret')
             /\ ret'.detail = "Portfolio data not initialized"
             /\ server' = server
        /\ (/\ ~IsEmptyDict(Cache)
            /\ SymbolsIn(args'.request.symbols) # SymbolsIn(Cache.symbols)) =>
             Refused400(ret')

\* C27: a simulate request received while the cache is empty (before a
\* successful initialization or after a failed one) is rejected with a 400
\* 'not initialized' error and changes no state; a simulate request whose
\* symbol set differs from the cached symbol set is rejected with a 400.
C27_SimulateNeedsMatchingCache ==
    /\ [](FailedInitializationLeavesEmpty)
    /\ [][C27_SimulateStep]_vars

\* a simulate request refused as not initialized after an initialization
C27_Witness ==
    /\ SimulateDone
    /\ IsEmptyDict(Cache)
    /\ ~IsEmptyDict(LastParams)
    /\ Refused400(ret)
    /\ ret.detail = "Portfolio data not initialized"

\* a simulate request refused for its symbols
C27_OtherSymbolsRefused ==
    /\ SimulateDone
    /\ ~IsEmptyDict(Cache)
    /\ SymbolsIn(args.request.symbols) # SymbolsIn(Cache.symbols)
    /\ Refused400(ret)
    /\ ret.detail = "Symbols in request do not match"

\* a simulate request with the cached symbols in another order is served
C27_OtherOrderServed ==
    /\ SimulateDone
    /\ ~IsEmptyDict(Cache)
    /\ args.request.symbols # Cache.symbols
    /\ ret.kind = "return"

\* the weight the request gives the j-th cached symbol
RequestedWeight(request, j) ==
    IF Cache.symbols[j] \in DOMAIN request.weights
    THEN request.weights[Cache.symbols[j]] ELSE RZero

\* the j-th cached path, in the key order of the dict
CachedPath(j) ==
    Cache.all_simulated_asset_paths.paths[Cache.all_simulated_asset_paths.keys[j]]

\* the value of the holding of the j-th cached path at step t of run 0
HoldingFromCache(request, j, t) ==
    IF CachedPath(j).data[1][1].coef = RZero THEN ZeroPrice
    ELSE Price(RDiv(RMul(RMul(request.initialPortfolioValue, RequestedWeight(request, j)),
                         CachedPath(j).data[t][1].coef),
                    CachedPath(j).data[1][1].coef),
               NSub(CachedPath(j).data[t][1].expo, CachedPath(j).data[1][1].expo))

\* a simulate request leaves the globals as they are, and its response is
\* computed from the cached paths and carries the cached optimal weights
C28_SimulateStep ==
    SimulateStep =>
        /\ server' = server
        /\ ret'.kind = "return" =>
             /\ ret'.value.optimalWeights = Cache.optimal_weights_dict
             /\ \A t \in 2..Len(ret'.value.simulatedPortfolioValues) :
                  ret'.value.simulatedPortfolioValues[t] =
                    [j \in 1..Len(Cache.all_simulated_asset_paths.keys) |->
                        HoldingFromCache(args'.request, j, t)]

\* C28: simulate_portfolio_value and the simulate endpoint leave the cached
\* paths, symbols and optimal weights unchanged, so simulate requests with
\* different weights all operate on the paths of the last initialization.
C28_SimulateLeavesCache == [][C28_SimulateStep]_vars

\* a simulate request served from a populated cache
C28_Witness ==
    /\ SimulateDone
    /\ ret.kind = "return"
    /\ ret.value.type = "SimulatePortfolioResponse"
    /\ Len(Cache.symbols) = 2
    /\ "MSFT" \notin DOMAIN args.request.weights
    /\ Len(ret.value.simulatedPortfolioValues) = 2
    /\ ret.value.simulatedPortfolioValues[2][1] # ZeroPrice

\* the conditions the request met, from the handler's locals
MetDownload(kind) == "download" \in DOMAIN frame /\ frame.download = kind
MetSecondDownload(kind) ==
    "second_download" \in DOMAIN frame /\ frame.second_download = kind

\* the news fetch failed for every symbol
NewsFailed == "news" \in DOMAIN frame /\ frame.news = "down"

\* a market cap was missing
CapsMissing == "caps" \in DOMAIN frame /\ frame.caps = "nocap"

\* Sigma of the request is singular
SigmaSingular ==
    "cov_matrix_daily_np" \in DOMAIN frame /\ Singular(frame.cov_matrix_daily_np)

\* the request has at least one view
HasViews == "P_matrix" \in DOMAIN frame /\ frame.P_matrix.shape[1] > 0

\* a fatal condition: fewer than two observations in the first download, or
\* no symbol with data in the simulator's download
MetFatalCondition == MetDownload("short") \/ MetSecondDownload("none")

\* C22 (as claimed): an initialize-data request that meets none of the
\* fatal conditions, only recoverable ones (failed news fetch, missing
\* market caps, singular Omega or bracket, singular Sigma), does not end in
\* an error response.
C22_RecoverableNeverEndsInError ==
    (InitializeDone /\ ~MetFatalCondition) => ret.kind # "raise"

\* the request that failed on a singular Sigma: the inversion of tau * Sigma
\* in calculate_posterior_returns raised with a view present
C22_SingularSigmaFails ==
    /\ InitializeDone
    /\ ~MetFatalCondition
    /\ SigmaSingular
    /\ HasViews
    /\ ret = HTTPException(500, "LinAlgError")

\* the recoverable conditions the pipeline does handle: no news and no
\* market cap, and a singular Sigma without a view
C22_HandledNewsAndCaps ==
    /\ InitializeDone
    /\ NewsFailed
    /\ CapsMissing
    /\ ret.kind = "return"
    /\ ret.value.type = "InitializeDataResponse"

C22_HandledSingularSigma ==
    /\ InitializeDone
    /\ SigmaSingular
    /\ ~HasViews
    /\ ret.kind = "return"
    /\ ret.value.type = "InitializeDataResponse"
    /\ \A sym \in SymbolsIn(ret.value.symbols) :
         ret.value.optimalWeights.values[sym] = Rat(1, 2)

\* C23 (as claimed): whenever an initialization populates the cache, the
\* symbols of Sigma and Pi and of the views, the cached symbol list and the
\* keys of the cached dict of paths are the same sequence.
C23_SameSymbolSequence ==
    (InitializeDone /\ "at" \in DOMAIN frame /\ frame.at = "finish") =>
        /\ Cache.symbols = frame.actual_symbols_processed
        /\ Cache.cov_matrix.shape = <<Len(Cache.symbols), Len(Cache.symbols)>>
        /\ Cache.implied_returns.shape[1] = Len(Cache.symbols)
        /\ Cache.P_matrix.shape[2] = Len(Cache.symbols)
        /\ Cache.optimal_weights_dict.keys = Cache.symbols
        /\ Cache.all_simulated_asset_paths.keys = Cache.symbols

\* the cache populated with paths of fewer symbols than Sigma has
C23_FewerPathsThanSymbols ==
    /\ InitializeDone
    /\ frame.at = "finish"
    /\ ret.kind = "return"
    /\ Cache.symbols = <<"AAPL", "MSFT">>
    /\ Cache.all_simulated_asset_paths.keys = <<"AAPL">>

\* and the simulate request that follows: the weight vector does not line
\* up with the paths
C23_SimulateFailsAfterwards ==
    /\ SimulateDone
    /\ ~IsEmptyDict(Cache)
    /\ SymbolsIn(args.request.symbols) = SymbolsIn(Cache.symbols)
    /\ ret = HTTPException(400, "ValueError")

(***************************************************************************)
(* SpecBlender: calculate_posterior_returns and calculate_optimal_weights  *)
(* called twice on the same arguments, with the state of the process       *)
(* outside the arguments (server: here the tauBL and riskAversionOpt of    *)
(* the last request, as api.py keeps them in its cache) changing between   *)
(* the two calls.  frame keeps the results of the first calls.             *)
(***************************************************************************)
BlenderSizes == {1, 2}
BlenderViews == {0, 1}
BlenderOmegaValues == {RZero, ROne}
\* the view return, which is not what the prior 1, 2 gives the view
BlenderViewReturns == {0}

OutsideStates ==
    {[tauBL |-> tau, riskAversionOpt |-> delta] :
        tau \in {Rat(1, 20), Rat(1, 40)}, delta \in {RInt(3), RInt(-1)}}

\* the two calls on the arguments of args: the optimal weights are computed
\* from the posterior returns when the first call returned them
BlenderResults ==
    LET posterior == calculate_posterior_returns(args.implied_eq_returns,
                         args.cov_matrix, args.P_matrix, args.Q_vector,
                         args.Omega_matrix, args.tau)
    IN  [posterior |-> posterior,
         weights |-> calculate_optimal_weights(
                         IF posterior.kind = "return" THEN posterior.value
                         ELSE args.implied_eq_returns,
                         args.cov_matrix, args.risk_aversion)]

InitBlender ==
    /\ pc = "call"
    /\ ret = NoResult
    /\ frame = NoFrame
    /\ server \in OutsideStates
    /\ \E n \in BlenderSizes, k \in BlenderViews :
         \E cov \in SymMatrices(n, PriorCovValues),
            P \in PickMatrices(k, n),
            Q \in Vectors(1, BlenderViewReturns, {"col"}),
            Omega \in DiagMatrices(1, BlenderOmegaValues) :
           args = [fn |-> "blender", n |-> n, k |-> k,
                   implied_eq_returns |-> Vector([i \in 1..n |-> i], n, "col"),
                   cov_matrix |-> cov, P_matrix |-> P, Q_vector |-> Q,
                   Omega_matrix |-> Omega, tau |-> Rat(1, 20),
                   risk_aversion |-> Rat(5, 2)]

InBlender == args.fn = "blender"

\* the first calls
BlendFirst ==
    /\ pc = "call"
    /\ InBlender
    /\ frame' = [at |-> "first", posterior |-> BlenderResults.posterior,
                 weights |-> BlenderResults.weights]
    /\ pc' = "between"
    /\ UNCHANGED <<args, ret, server>>

\* other requests change the state of the process
OutsideChanges ==
    /\ pc = "between"
    /\ InBlender
    /\ server' \in OutsideStates
    /\ pc' = "again"
    /\ UNCHANGED <<args, ret, frame>>

\* the same calls again
BlendAgain ==
    /\ pc = "again"
    /\ InBlender
    /\ ret' = Return(BlenderResults)
    /\ pc' = "done"
    /\ UNCHANGED <<args, frame, server>>

NextBlender ==
    \/ BlendFirst
    \/ OutsideChanges
    \/ BlendAgain

SpecBlender == InitBlender /\ [][NextBlender]_vars

BlenderDone == pc = "done" /\ InBlender

\* the second calls returned, or raised, what the first calls did
SameResultsTwice ==
    BlenderDone =>
        /\ ret.value.posterior = frame.posterior
        /\ ret.value.weights = frame.weights

\* a call leaves the state outside its arguments, and its arguments, as
\* they are
BlendStep ==
    (InBlender /\ pc \in {"call", "again"}) =>
        /\ server' = server
        /\ args' = args

====
